---- MODULE Spec2Model ----
(***************************************************************************)
(* PARM assembler: a model of the range-checked immediates                 *)
(* (instructions.rs), the label resolver (instructions.rs, logic.rs), the  *)
(* layout stage (logic.rs), the line parser (parser.rs), the bit           *)
(* encoder (emitter.rs), the Logisim serializer (lib.rs) and the command   *)
(* line (main.rs).                                                         *)
(*                                                                         *)
(* Eight specifications share the definitions:                             *)
(*   SpecImm      Immediate<N, WIDE>::new followed by its to_binary        *)
(*   SpecComplete FullInstr::complete on one instruction, then to_binary   *)
(*   Spec         make_program on a Vec<ParsedLine>, stage by stage        *)
(*   SpecAssemble export_to_logisim on source text: parse_lines, then      *)
(*                the stages of make_program                               *)
(*   SpecEncode   one instruction line: parse_instr, complete, to_binary   *)
(*   SpecLogisim  convert_to_logisim on a bit stream                       *)
(*   SpecCollapse collapse_long on a Vec<ParsedLine>                       *)
(*   SpecBatch    the command `assemble` on a batch of files               *)
(*                                                                         *)
(* Text (label names, string literals, source lines) is a sequence of      *)
(* one-character strings; a bit vector is a sequence of 0/1, most          *)
(* significant bit first (Msb0).                                           *)
(***************************************************************************)
EXTENDS Integers, Sequences, FiniteSets, TLC

VARIABLES
    pc,          \* position in the operation under way
    N,           \* Immediate<N, WIDE>: the const generic N
    WIDE,        \* Immediate<N, WIDE>: the const generic WIDE
    val,         \* argument of Immediate::new
    imm,         \* result of Immediate::new
    imm_bits,    \* result of to_binary on the constructed immediate
    self_instr,  \* FullInstr::complete: self
    cur_line,    \* FullInstr::complete: cur_line
    rom_labels,  \* LabelLookup of the ROM address space
    ram_labels,  \* LabelLookup of the RAM address space
    completed,   \* result of FullInstr::complete
    word,        \* to_binary of the completed instruction
    input,       \* source text handed to export_to_logisim
    instrs,      \* make_program: the main stream, Vec<ParsedLine>
    ram,         \* make_program: the RAM stream, Vec<ParsedLine>
    resolved,    \* process_lines: Result<Vec<FullInstr>, CompleteError>
    program,     \* make_program: Result<Program, CompleteError>
    data,        \* convert_to_logisim: the bit stream
    output,      \* convert_to_logisim: the String returned
    batch,       \* assemble: the files of list_files(input), in order
    results,     \* assemble: the results of process_file so far
    written,     \* the output files on disk: <<file index, extension>>
    stdout,      \* the lines printed
    exit_code    \* the exit code of the process, once it has ended

immVars == <<N, WIDE, val, imm, imm_bits>>
cmpVars == <<self_instr, cur_line, completed, word>>
asmVars == <<input, instrs, ram, resolved, program>>
mapVars == <<rom_labels, ram_labels>>
outVars == <<data, output>>
cliVars == <<batch, results, written, stdout, exit_code>>
vars == <<pc, immVars, cmpVars, asmVars, mapVars, outVars, cliVars>>

\* The value every variable holds while its operation is not running.
Idle == "idle"

(***************************************************************************)
(* Bounds of the model.                                                    *)
(***************************************************************************)
\* Largest argument handed to Immediate::new.
MaxVal == 1030
\* Largest ROM index and largest RAM offset handed to FullInstr::complete.
MaxIdx == 1030
\* Longest Vec<ParsedLine> handed to make_program.
MaxLines == 5
\* Most source lines of a text handed to parse_lines.
MaxSrcLines == 3
\* Most 16-bit words of a bit stream handed to convert_to_logisim.
MaxWords == 3
\* Most files of a batch handed to assemble.
MaxFiles == 2

(***************************************************************************)
(* Machine integers.                                                       *)
(***************************************************************************)
\* `x as u16`
AsU16(x) == x % 65536

\* `x as i16`
AsI16(x) == LET m == x % 65536 IN IF m >= 32768 THEN m - 65536 ELSE m

\* The range of i16: arithmetic leaving it overflows.
InI16(x) == x >= -32768 /\ x <= 32767

(***************************************************************************)
(* Bit vectors (bitvec, Msb0).                                             *)
(***************************************************************************)
\* resize(n, false) then store_be(v): the low n bits of v, most significant
\* first; the bits of v above n are discarded.  v may be negative (i16).
store_be(n, v) == [i \in 1..n |-> (v \div (2 ^ (n - i))) % 2]

\* load_be: the unsigned value of a bit vector.
RECURSIVE load_be(_)
load_be(b) == IF b = <<>> THEN 0
              ELSE 2 * load_be(SubSeq(b, 1, Len(b) - 1)) + b[Len(b)]

(***************************************************************************)
(* instructions.rs: Immediate<N, WIDE>                                     *)
(***************************************************************************)
Immediate_lower_bound == 0

Immediate_upper_bound(n, wide) ==
    LET offset == IF wide THEN 2 ELSE 0
    IN  AsU16(2 ^ (n + offset))

\* Ok(Self(..)) is [ok |-> TRUE, v |-> stored]; Err(TooLarge(val)) is
\* [ok |-> FALSE, v |-> val].
Immediate_new(n, wide, v) ==
    IF v >= Immediate_lower_bound /\ v <= Immediate_upper_bound(n, wide)
    THEN [ok |-> TRUE, v |-> IF wide THEN v \div 4 ELSE v]
    ELSE [ok |-> FALSE, v |-> v]

\* emitter.rs: ToBinary for Immediate<N, WIDE>
to_binary_Immediate(n, v) == store_be(n, v)

\* The instantiations of Immediate<N, WIDE> the crate names:
\* Immediate3, Immediate5, Immediate8, Immediate7W, Immediate8W.
ImmediateTypes ==
    { <<3, FALSE>>, <<5, FALSE>>, <<8, FALSE>>, <<7, TRUE>>, <<8, TRUE>> }

(***************************************************************************)
(* SpecImm: construct one immediate, then encode it.                       *)
(***************************************************************************)
InitImm ==
    /\ pc = "imm_new"
    /\ \E t \in ImmediateTypes : N = t[1] /\ WIDE = t[2]
    /\ val \in 0..MaxVal
    /\ imm = Idle
    /\ imm_bits = Idle
    /\ self_instr = Idle /\ cur_line = Idle /\ completed = Idle /\ word = Idle
    /\ input = Idle /\ instrs = Idle /\ ram = Idle /\ resolved = Idle
    /\ program = Idle
    /\ data = Idle /\ output = Idle
    /\ batch = Idle /\ results = Idle /\ written = Idle
    /\ stdout = Idle /\ exit_code = Idle
    /\ rom_labels = Idle /\ ram_labels = Idle

\* Immediate::<N, WIDE>::new(val)
ImmediateNew ==
    /\ pc = "imm_new"
    /\ imm' = Immediate_new(N, WIDE, val)
    /\ pc' = IF imm'.ok THEN "imm_to_binary" ELSE "imm_err"
    /\ UNCHANGED <<N, WIDE, val, imm_bits, cmpVars, asmVars, mapVars, outVars, cliVars>>

\* imm.to_binary()
ImmediateToBinary ==
    /\ pc = "imm_to_binary"
    /\ imm_bits' = to_binary_Immediate(N, imm.v)
    /\ pc' = "imm_done"
    /\ UNCHANGED <<N, WIDE, val, imm, cmpVars, asmVars, mapVars, outVars, cliVars>>

NextImm == ImmediateNew \/ ImmediateToBinary

SpecImm == InitImm /\ [][NextImm]_vars

(***************************************************************************)
(* instructions.rs: SignedImmediate<N, WIDE>                               *)
(***************************************************************************)
SignedImmediate_lower_bound(n, wide) ==
    LET offset == IF wide THEN 2 ELSE 0
    IN  AsI16(-(2 ^ (n + offset - 1)))

\* An upper bound that is one too large, as Immediate::upper_bound is.
SignedImmediate_upper_bound_off_by_one(n, wide) ==
    LET offset == IF wide THEN 2 ELSE 0
    IN  AsI16(2 ^ (n + offset - 1))

SignedImmediate_upper_bound(n, wide) ==
    LET offset == IF wide THEN 2 ELSE 0
    IN  AsI16(2 ^ (n + offset - 1) - 1)

\* i16 division truncates toward zero.
DivI16(a, b) == IF a >= 0 THEN a \div b ELSE -((-a) \div b)

SignedImmediate_new(n, wide, v) ==
    IF /\ v >= SignedImmediate_lower_bound(n, wide)
       /\ v <= SignedImmediate_upper_bound(n, wide)
    THEN [ok |-> TRUE, v |-> IF wide THEN DivI16(v, 4) ELSE v]
    ELSE [ok |-> FALSE, v |-> v]

\* Immediate11 = SignedImmediate<11, false>, Immediate8S = SignedImmediate<8, false>
Immediate11_new(v) == SignedImmediate_new(11, FALSE, v)
Immediate8S_new(v) == SignedImmediate_new(8, FALSE, v)
\* Immediate8 = Immediate<8, false>
Immediate8_new(v) == Immediate_new(8, FALSE, v)

\* emitter.rs: ToBinary for SignedImmediate<N, WIDE>
to_binary_SignedImmediate(n, v) == store_be(n, v)

(***************************************************************************)
(* instructions.rs: Reg, Instr, Args, FullInstr                            *)
(***************************************************************************)
Regs == {"R0", "R1", "R2", "R3", "R4", "R5", "R6", "R7", "PC", "SP"}

\* `reg as u8`
Reg_u8(r) ==
    CASE r = "R0" -> 0 [] r = "R1" -> 1 [] r = "R2" -> 2 [] r = "R3" -> 3
      [] r = "R4" -> 4 [] r = "R5" -> 5 [] r = "R6" -> 6 [] r = "R7" -> 7
      [] r = "PC" -> 14 [] r = "SP" -> 15

\* A register stored in a field wide enough for the code of SP.
to_binary_Reg_4_bits(r) == store_be(4, Reg_u8(r))

\* emitter.rs: ToBinary for Reg
to_binary_Reg(r) == store_be(3, Reg_u8(r))

\* The conditional branches: every mnemonic of parse_label_args but B.
CondBranches ==
    {"Beq", "Bne", "Bcs", "Bcc", "Bmi", "Bpl", "Bvs", "Bvc",
     "Bhi", "Bls", "Bge", "Blt", "Bgt", "Ble", "Bal"}

\* Instr::bits, the arm of Movs.
Movs_bits == <<0, 0, 1, 0, 0>>

\* A literal load that kept the opcode of the sp-relative ldr.
Ldr3_bits_of_Ldr == <<1, 0, 0, 1, 1>>

\* Instr::bits, the arm of Ldr3: `Self::bits(&Movs)`, implemented as movs.
Ldr3_bits == Movs_bits

\* Instr::bits: the opcode bits of each instruction.
Instr_bits(i) ==
    CASE i = "Lsls"  -> <<0, 0, 0, 0, 0>>
      [] i = "Lsrs"  -> <<0, 0, 0, 0, 1>>
      [] i = "Asrs"  -> <<0, 0, 0, 1, 0>>
      [] i = "Adds"  -> <<0, 0, 0, 1, 1, 0, 0>>
      [] i = "Adds2" -> <<0, 0, 0, 1, 1, 1, 0>>
      [] i = "Adds3" -> <<0, 0, 1, 1, 0>>
      [] i = "Subs"  -> <<0, 0, 0, 1, 1, 0, 1>>
      [] i = "Subs2" -> <<0, 0, 0, 1, 1, 1, 1>>
      [] i = "Subs3" -> <<0, 0, 1, 1, 1>>
      [] i = "Movs"  -> Movs_bits
      [] i = "Ands"  -> <<0, 1, 0, 0, 0, 0, 0, 0, 0, 0>>
      [] i = "Eors"  -> <<0, 1, 0, 0, 0, 0, 0, 0, 0, 1>>
      [] i = "Lsls2" -> <<0, 1, 0, 0, 0, 0, 0, 0, 1, 0>>
      [] i = "Lsrs2" -> <<0, 1, 0, 0, 0, 0, 0, 0, 1, 1>>
      [] i = "Asrs2" -> <<0, 1, 0, 0, 0, 0, 0, 1, 0, 0>>
      [] i = "Adcs"  -> <<0, 1, 0, 0, 0, 0, 0, 1, 0, 1>>
      [] i = "Sbcs"  -> <<0, 1, 0, 0, 0, 0, 0, 1, 1, 0>>
      [] i = "Rors"  -> <<0, 1, 0, 0, 0, 0, 0, 1, 1, 1>>
      [] i = "Tst"   -> <<0, 1, 0, 0, 0, 0, 1, 0, 0, 0>>
      [] i = "Rsbs"  -> <<0, 1, 0, 0, 0, 0, 1, 0, 0, 1>>
      [] i = "Cmp"   -> <<0, 1, 0, 0, 0, 0, 1, 0, 1, 0>>
      [] i = "Cmp2"  -> <<0, 0, 1, 0, 1>>
      [] i = "Cmn"   -> <<0, 1, 0, 0, 0, 0, 1, 0, 1, 1>>
      [] i = "Orrs"  -> <<0, 1, 0, 0, 0, 0, 1, 1, 0, 0>>
      [] i = "Muls"  -> <<0, 1, 0, 0, 0, 0, 1, 1, 0, 1>>
      [] i = "Bics"  -> <<0, 1, 0, 0, 0, 0, 1, 1, 1, 0>>
      [] i = "Mvns"  -> <<0, 1, 0, 0, 0, 0, 1, 1, 1, 1>>
      [] i = "Str"   -> <<1, 0, 0, 1, 0>>
      [] i = "Ldr"   -> <<1, 0, 0, 1, 1>>
      [] i = "Ldr2"  -> <<0, 1, 1, 0, 1>>
      [] i = "Ldr3"  -> Ldr3_bits
      [] i = "AddSp" -> <<1, 0, 1, 1, 0, 0, 0, 0, 0>>
      [] i = "SubSp" -> <<1, 0, 1, 1, 0, 0, 0, 0, 1>>
      [] i = "Beq"   -> <<1, 1, 0, 1, 0, 0, 0, 0>>
      [] i = "Bne"   -> <<1, 1, 0, 1, 0, 0, 0, 1>>
      [] i = "Bcs"   -> <<1, 1, 0, 1, 0, 0, 1, 0>>
      [] i = "Bcc"   -> <<1, 1, 0, 1, 0, 0, 1, 1>>
      [] i = "Bmi"   -> <<1, 1, 0, 1, 0, 1, 0, 0>>
      [] i = "Bpl"   -> <<1, 1, 0, 1, 0, 1, 0, 1>>
      [] i = "Bvs"   -> <<1, 1, 0, 1, 0, 1, 1, 0>>
      [] i = "Bvc"   -> <<1, 1, 0, 1, 0, 1, 1, 1>>
      [] i = "Bhi"   -> <<1, 1, 0, 1, 1, 0, 0, 0>>
      [] i = "Bls"   -> <<1, 1, 0, 1, 1, 0, 0, 1>>
      [] i = "Bge"   -> <<1, 1, 0, 1, 1, 0, 1, 0>>
      [] i = "Blt"   -> <<1, 1, 0, 1, 1, 0, 1, 1>>
      [] i = "Bgt"   -> <<1, 1, 0, 1, 1, 1, 0, 0>>
      [] i = "Ble"   -> <<1, 1, 0, 1, 1, 1, 0, 1>>
      [] i = "Bal"   -> <<1, 1, 0, 1, 1, 1, 1, 0>>
      [] i = "B"     -> <<1, 1, 1, 0, 0>>

\* The variants of Args, as records tagged by t.
Args_Label(label)      == [t |-> "Label", label |-> label]
Args_RtLabel(rt, label) == [t |-> "RtLabel", rt |-> rt, label |-> label]
Args_Immediate11(v)    == [t |-> "Immediate11", imm |-> v]
Args_Immediate8S(v)    == [t |-> "Immediate8S", imm |-> v]
Args_RdImm8(rd, v)     == [t |-> "RdImm8", rd |-> rd, imm |-> v]
Args_Immediate7W(v)    == [t |-> "Immediate7W", imm |-> v]
Args_RdRmImm5(rd, rm, v) == [t |-> "RdRmImm5", rd |-> rd, rm |-> rm, imm |-> v]
Args_RdRnImm0(rd, rn)  == [t |-> "RdRnImm0", rd |-> rd, rn |-> rn]
Args_RdRnImm3(rd, rn, v) == [t |-> "RdRnImm3", rd |-> rd, rn |-> rn, imm |-> v]
Args_RdRnRm(rd, rn, rm) == [t |-> "RdRnRm", rd |-> rd, rn |-> rn, rm |-> rm]
Args_RtSpImm8W(rt, v)  == [t |-> "RtSpImm8W", rt |-> rt, imm |-> v]
Args_RtRnImm5(rt, rn, v) == [t |-> "RtRnImm5", rt |-> rt, rn |-> rn, imm |-> v]
Args_TwoRegs(r1, r2)   == [t |-> "TwoRegs", r1 |-> r1, r2 |-> r2]

FullInstr(i, a) == [instr |-> i, args |-> a]

(***************************************************************************)
(* instructions.rs: CompleteError and FullInstr::complete                  *)
(***************************************************************************)
\* usize::to_string: the decimal digits of n.
RECURSIVE to_string(_)
to_string(n) ==
    LET digit(d) == <<"0", "1", "2", "3", "4", "5", "6", "7", "8", "9">>[d + 1]
    IN  IF n < 10 THEN <<digit(n)>>
        ELSE to_string(n \div 10) \o <<digit(n % 10)>>

\* `x as i32`: every i16 and every address below 2^31 keeps its value (the
\* model's integers do not go beyond that range).
AsI32(x) == x

LabelNotFound(label) == [ok |-> FALSE, err |-> "LabelNotFound", label |-> label]
JumpTooFar(label, distance) ==
    [ok |-> FALSE, err |-> "JumpTooFar", label |-> label, distance |-> distance]
Ok(x) == [ok |-> TRUE, v |-> x]

\* `label as i16 - cur_line as i16 - 3`, as wrapping i16 arithmetic.
label_offset(label, cur) == AsI16(AsI16(AsI16(label) - AsI16(cur)) - 3)

\* The subtractions leave i16: a build with overflow checks panics there,
\* a build without them continues with label_offset.
label_offset_overflows(label, cur) ==
    \/ ~InI16(AsI16(label) - AsI16(cur))
    \/ ~InI16(AsI16(AsI16(label) - AsI16(cur)) - 3)

complete_label_imm8(label, cur) ==
    LET offset == label_offset(label, cur)
        r == Immediate8S_new(offset)
    IN  IF r.ok THEN Ok(r.v)
        ELSE JumpTooFar(to_string(label), AsI32(offset))

complete_label_imm11(label, cur) ==
    LET offset == label_offset(label, cur)
        r == Immediate11_new(offset)
    IN  IF r.ok THEN Ok(r.v)
        ELSE JumpTooFar(to_string(label), AsI32(offset))

\* FullInstr::complete, the block `if let Args::Label(ref label) = self.args`:
\* Ok(copy) with the branch resolved against rom, copy = self for any other
\* instruction, or the error returned.  A LabelLookup is a function from the
\* names it holds to their addresses.
complete_Label(self, cur, rom) ==
    IF self.args.t = "Label"
    THEN IF self.args.label \in DOMAIN rom
         THEN LET addr == rom[self.args.label]
                  r == IF self.instr = "B"
                       THEN complete_label_imm11(addr, cur)
                       ELSE complete_label_imm8(addr, cur)
              IN  IF ~r.ok THEN r
                  ELSE Ok(FullInstr(self.instr,
                             IF self.instr = "B"
                             THEN Args_Immediate11(r.v)
                             ELSE Args_Immediate8S(r.v)))
         ELSE LabelNotFound(self.args.label)
    ELSE Ok(self)

\* The second block of complete left out: `Ok(copy)` for every instruction.
complete_RtLabel_skipped(self, copy, ram_) == Ok(copy)

\* FullInstr::complete, the block `if let FullInstr { instr: Instr::Ldr3,
\* args: Args::RtLabel(rt, label) } = self`, then `Ok(copy)`.
complete_RtLabel(self, copy, ram_) ==
    IF self.instr = "Ldr3" /\ self.args.t = "RtLabel"
    THEN IF self.args.label \in DOMAIN ram_
         THEN LET addr == ram_[self.args.label]
                  r == Immediate8_new(AsU16(addr))
              IN  IF ~r.ok THEN JumpTooFar(self.args.label, AsI32(addr))
                  ELSE Ok(FullInstr(copy.instr, Args_RdImm8(self.args.rt, r.v)))
         ELSE LabelNotFound(self.args.label)
    ELSE Ok(copy)

\* complete with one lookup table for both paths: a label is searched in the
\* ROM map and, when the ROM map lacks it, in the RAM map.
complete_either_map(self, cur, rom, ram_) ==
    LET both == [x \in DOMAIN rom \cup DOMAIN ram_ |->
                    IF x \in DOMAIN rom THEN rom[x] ELSE ram_[x]]
        first == complete_Label(self, cur, both)
    IN  IF ~first.ok THEN first ELSE complete_RtLabel(self, first.v, both)

\* FullInstr::complete(&self, cur_line, rom_labels, ram_labels)
complete(self, cur, rom, ram_) ==
    LET first == complete_Label(self, cur, rom)
    IN  IF ~first.ok THEN first
        ELSE complete_RtLabel(self, first.v, ram_)

\* complete evaluates label_offset for this instruction.
complete_overflows(self, cur, rom) ==
    /\ self.args.t = "Label"
    /\ self.args.label \in DOMAIN rom
    /\ label_offset_overflows(rom[self.args.label], cur)

Panic(msg) == [ok |-> FALSE, err |-> "panic", msg |-> msg]

(***************************************************************************)
(* emitter.rs: ToBinary for FullInstr.  The opcode bits are Instr::bits.   *)
(***************************************************************************)
\* The operand bits of each variant of Args, in the order the arm of the
\* match extends them.
to_binary_RdRmImm5(a) ==
    to_binary_Immediate(5, a.imm) \o to_binary_Reg(a.rm) \o to_binary_Reg(a.rd)

to_binary_RdRnImm3(a) ==
    to_binary_Immediate(3, a.imm) \o to_binary_Reg(a.rn) \o to_binary_Reg(a.rd)

to_binary_RdRnRm(a) ==
    to_binary_Reg(a.rm) \o to_binary_Reg(a.rn) \o to_binary_Reg(a.rd)

to_binary_RdImm8(a) == to_binary_Reg(a.rd) \o to_binary_Immediate(8, a.imm)

\* TwoRegs in the order the source writes the registers.
to_binary_TwoRegs_in_source_order(a) ==
    to_binary_Reg(a.r1) \o to_binary_Reg(a.r2)

to_binary_TwoRegs(a) == to_binary_Reg(a.r2) \o to_binary_Reg(a.r1)

to_binary_RdRnImm0(a) == to_binary_Reg(a.rn) \o to_binary_Reg(a.rd)

to_binary_RtSpImm8W(a) == to_binary_Reg(a.rt) \o to_binary_Immediate(8, a.imm)

\* The arm of Args::RtRnImm5: `ldrb r1, [r0, #1]` is the word 6841.
to_binary_RtRnImm5(a) ==
    to_binary_Immediate(5, a.imm) \o to_binary_Reg(a.rn) \o to_binary_Reg(a.rt)

to_binary_FullInstr(fi) ==
    LET a == fi.args
        bits == Instr_bits(fi.instr)
    IN  CASE a.t = "Label" -> Panic("Label not resolved")
          [] a.t = "RdRmImm5" -> bits \o to_binary_RdRmImm5(a)
          [] a.t = "RdRnImm3" -> bits \o to_binary_RdRnImm3(a)
          [] a.t = "RdRnRm" -> bits \o to_binary_RdRnRm(a)
          [] a.t = "RdImm8" -> bits \o to_binary_RdImm8(a)
          [] a.t = "Immediate7W" -> bits \o to_binary_Immediate(7, a.imm)
          [] a.t = "TwoRegs" -> bits \o to_binary_TwoRegs(a)
          [] a.t = "RdRnImm0" -> bits \o to_binary_RdRnImm0(a)
          [] a.t = "Immediate11" -> bits \o to_binary_SignedImmediate(11, a.imm)
          [] a.t = "RtSpImm8W" -> bits \o to_binary_RtSpImm8W(a)
          [] a.t = "RtRnImm5" -> bits \o to_binary_RtRnImm5(a)
          [] a.t = "Immediate8S" -> bits \o to_binary_SignedImmediate(8, a.imm)

(***************************************************************************)
(* SpecComplete: FullInstr::complete on one instruction at ROM index       *)
(* cur_line against two label maps, then to_binary on the result.          *)
(***************************************************************************)
NameA == <<"a">>
NameB == <<"b">>
Names == {NameA, NameB}

\* The instructions handed to complete: every branch mnemonic, the literal
\* load, and an instruction without a label.
CompleteInstrs ==
    {FullInstr(i, Args_Label(NameA)) : i \in CondBranches \cup {"B"}}
        \cup {FullInstr("Beq", Args_Label(NameB))}
        \cup {FullInstr("Ldr3", Args_RtLabel(r, NameA)) : r \in {"R0", "R5"}}
        \cup {FullInstr("Movs", Args_RdImm8("R1", 7))}

\* The label maps: NameA, when present, is at address x; NameB at MaxIdx - x.
LabelMap(keys, x) == [n \in keys |-> IF n = NameA THEN x ELSE MaxIdx - x]

InitComplete ==
    /\ pc = "complete"
    /\ self_instr \in CompleteInstrs
    /\ cur_line \in {0, MaxIdx}
    /\ \E x \in 0..MaxIdx, rk \in SUBSET Names, mk \in {{}, {NameA}, Names} :
          /\ rom_labels = LabelMap(rk, x)
          /\ ram_labels = LabelMap(mk, x)
    /\ completed = Idle /\ word = Idle
    /\ N = Idle /\ WIDE = Idle /\ val = Idle /\ imm = Idle /\ imm_bits = Idle
    /\ input = Idle /\ instrs = Idle /\ ram = Idle /\ resolved = Idle
    /\ program = Idle
    /\ data = Idle /\ output = Idle
    /\ batch = Idle /\ results = Idle /\ written = Idle
    /\ stdout = Idle /\ exit_code = Idle

\* self_instr.complete(cur_line, &rom_labels, &ram_labels)
Complete ==
    /\ pc = "complete"
    /\ completed' \in
          {complete(self_instr, cur_line, rom_labels, ram_labels)}
            \cup (IF complete_overflows(self_instr, cur_line, rom_labels)
                  THEN {Panic("attempt to subtract with overflow")}
                  ELSE {})
    /\ pc' = IF completed'.ok THEN "to_binary" ELSE "complete_err"
    /\ UNCHANGED <<self_instr, cur_line, word, mapVars, immVars, asmVars, outVars, cliVars>>

\* completed.to_binary()
ToBinary ==
    /\ pc = "to_binary"
    /\ word' = to_binary_FullInstr(completed.v)
    /\ pc' = "complete_done"
    /\ UNCHANGED <<self_instr, cur_line, completed, mapVars, immVars, asmVars, outVars, cliVars>>

NextComplete == Complete \/ ToBinary

SpecComplete == InitComplete /\ [][NextComplete]_vars

(***************************************************************************)
(* parser.rs / logic.rs: ParsedLine.  logic.rs also matches                *)
(* ParsedLine::Long(name), the line `.long name`.                          *)
(***************************************************************************)
PL_Instr(fi)  == [t |-> "Instr", instr |-> fi]
PL_Label(s)   == [t |-> "Label", s |-> s]
PL_String(s)  == [t |-> "String", s |-> s]
PL_Long(s)    == [t |-> "Long", s |-> s]

\* Vec::remove(i), i counted from 0.
Vec_remove(v, i) == SubSeq(v, 1, i) \o SubSeq(v, i + 2, Len(v))

\* `for i in to_remove.iter().rev() { instrs.remove(*i); }`
RECURSIVE remove_rev(_, _)
remove_rev(v, to_remove) ==
    IF to_remove = <<>> THEN v
    ELSE remove_rev(Vec_remove(v, to_remove[Len(to_remove)]),
                    SubSeq(to_remove, 1, Len(to_remove) - 1))

(***************************************************************************)
(* logic.rs: extract_ram                                                   *)
(***************************************************************************)
\* The loop of extract_ram without the arm `_ => last_labels.clear()`.
RECURSIVE extract_ram_loop_no_clear(_, _, _, _, _)
extract_ram_loop_no_clear(lines, i, last_labels, ram_, to_remove) ==
    IF i >= Len(lines) THEN [panic |-> FALSE, ram |-> ram_, to_remove |-> to_remove]
    ELSE LET l == lines[i + 1]
         IN  IF l.t = "Label"
             THEN extract_ram_loop_no_clear(lines, i + 1,
                                   Append(last_labels, i), ram_, to_remove)
             ELSE IF l.t = "String"
             THEN IF last_labels # <<>>
                  THEN extract_ram_loop_no_clear(lines, i + 1, <<>>,
                          ram_ \o [k \in 1..Len(last_labels) |->
                                      PL_Label(lines[last_labels[k] + 1].s)]
                               \o <<PL_String(l.s)>>,
                          to_remove \o last_labels \o <<i>>)
                  ELSE [panic |-> TRUE, ram |-> ram_, to_remove |-> to_remove]
             ELSE extract_ram_loop_no_clear(lines, i + 1, last_labels,
                                            ram_, to_remove)

\* The loop of extract_ram from line i (counted from 0): last_labels holds
\* the indices of the pending Label lines.  The result is the RAM stream and
\* the indices to remove, or the panic of a String without label.
RECURSIVE extract_ram_loop(_, _, _, _, _)
extract_ram_loop(lines, i, last_labels, ram_, to_remove) ==
    IF i >= Len(lines) THEN [panic |-> FALSE, ram |-> ram_, to_remove |-> to_remove]
    ELSE LET l == lines[i + 1]
         IN  IF l.t = "Label"
             THEN extract_ram_loop(lines, i + 1, Append(last_labels, i),
                                   ram_, to_remove)
             ELSE IF l.t = "String"
             THEN IF last_labels # <<>>
                  THEN extract_ram_loop(lines, i + 1, <<>>,
                          ram_ \o [k \in 1..Len(last_labels) |->
                                      PL_Label(lines[last_labels[k] + 1].s)]
                               \o <<PL_String(l.s)>>,
                          to_remove \o last_labels \o <<i>>)
                  ELSE [panic |-> TRUE, ram |-> ram_, to_remove |-> to_remove]
             ELSE extract_ram_loop(lines, i + 1, <<>>, ram_, to_remove)

\* extract_ram(&mut instrs): [panic, ram, instrs], instrs as it leaves them.
extract_ram(lines) ==
    LET r == extract_ram_loop(lines, 0, <<>>, <<>>, <<>>)
    IN  [panic |-> r.panic, ram |-> r.ram,
         instrs |-> IF r.panic THEN lines ELSE remove_rev(lines, r.to_remove)]

(***************************************************************************)
(* logic.rs: collapse_long                                                 *)
(***************************************************************************)
\* The inner loop: every `ldr rt, label` becomes `ldr rt, long_label`.
rewrite_ldr(lines, label, long_label) ==
    [k \in 1..Len(lines) |->
        IF /\ lines[k].t = "Instr"
           /\ lines[k].instr.instr = "Ldr3"
           /\ lines[k].instr.args.t = "RtLabel"
           /\ lines[k].instr.args.label = label
        THEN PL_Instr(FullInstr("Ldr3",
                 Args_RtLabel(lines[k].instr.args.rt, long_label)))
        ELSE lines[k]]

\* The loop `for i in 1..instrs.len()` from i (counted from 0).
RECURSIVE collapse_long_loop(_, _, _)
collapse_long_loop(lines, i, to_remove) ==
    IF i >= Len(lines) THEN remove_rev(lines, to_remove)
    ELSE IF lines[i + 1].t = "Long" /\ lines[i].t = "Label"
         THEN collapse_long_loop(
                  rewrite_ldr(lines, lines[i].s, lines[i + 1].s),
                  i + 1, Append(to_remove, i))
         ELSE collapse_long_loop(lines, i + 1, to_remove)

collapse_long(lines) == collapse_long_loop(lines, 1, <<>>)

(***************************************************************************)
(* logic.rs: calculate_labels                                              *)
(***************************************************************************)
\* An insertion that keeps the value a key already has.
insert_keep_first(m, k, v) ==
    IF k \in DOMAIN m THEN m
    ELSE [x \in DOMAIN m \cup {k} |-> IF x = k THEN v ELSE m[x]]

\* HashMap::insert
insert(m, k, v) == [x \in DOMAIN m \cup {k} |-> IF x = k THEN v ELSE m[x]]

\* rom_labels: each Label at stream index i (from 0), the label_i-th Label
\* of the stream, is collected as (name, i - label_i); a later pair replaces
\* an earlier one of the same name.
RECURSIVE rom_labels_from(_, _, _, _)
rom_labels_from(lines, i, label_i, m) ==
    IF i >= Len(lines) THEN m
    ELSE IF lines[i + 1].t = "Label"
         THEN rom_labels_from(lines, i + 1, label_i + 1,
                              insert(m, lines[i + 1].s, i - label_i))
         ELSE rom_labels_from(lines, i + 1, label_i, m)

\* The same loop advancing prev_string_end by one per string.
RECURSIVE ram_labels_by_string_count(_, _, _, _)
ram_labels_by_string_count(ram_, i, prev_string_end, m) ==
    IF i >= Len(ram_) THEN m
    ELSE IF ram_[i + 1].t = "Label"
         THEN ram_labels_by_string_count(ram_, i + 1, prev_string_end,
                              insert(m, ram_[i + 1].s, prev_string_end))
         ELSE ram_labels_by_string_count(ram_, i + 1, prev_string_end + 1, m)

\* ram_labels: the loop over the RAM stream with prev_string_end.
RECURSIVE ram_labels_from(_, _, _, _)
ram_labels_from(ram_, i, prev_string_end, m) ==
    IF i >= Len(ram_) THEN m
    ELSE IF ram_[i + 1].t = "Label"
         THEN ram_labels_from(ram_, i + 1, prev_string_end,
                              insert(m, ram_[i + 1].s, prev_string_end))
         ELSE ram_labels_from(ram_, i + 1,
                              prev_string_end + Len(ram_[i + 1].s), m)

calculate_labels(lines, ram_) ==
    [rom |-> rom_labels_from(lines, 0, 0, <<>>),
     ram |-> ram_labels_from(ram_, 0, 0, <<>>)]

(***************************************************************************)
(* logic.rs: process_lines                                                 *)
(***************************************************************************)
\* filter_map: the FullInstr of every Instr line, in order.
RECURSIVE only_instrs(_)
only_instrs(lines) ==
    IF lines = <<>> THEN <<>>
    ELSE IF lines[1].t = "Instr"
         THEN <<lines[1].instr>> \o only_instrs(Tail(lines))
         ELSE only_instrs(Tail(lines))

\* The same collection with the instructions numbered from 1.
RECURSIVE complete_all_from_one(_, _, _, _)
complete_all_from_one(is, i, rom, ram_) ==
    IF i >= Len(is) THEN Ok(<<>>)
    ELSE LET c == complete(is[i + 1], i + 1, rom, ram_)
         IN  IF ~c.ok THEN c
             ELSE LET rest == complete_all_from_one(is, i + 1, rom, ram_)
                  IN  IF ~rest.ok THEN rest ELSE Ok(<<c.v>> \o rest.v)

\* enumerate().map(complete).collect::<Result<_, _>>(): the completed
\* instructions from index i (counted from 0) on, or the first error.
RECURSIVE complete_all(_, _, _, _)
complete_all(is, i, rom, ram_) ==
    IF i >= Len(is) THEN Ok(<<>>)
    ELSE LET c == complete(is[i + 1], i, rom, ram_)
         IN  IF ~c.ok THEN c
             ELSE LET rest == complete_all(is, i + 1, rom, ram_)
                  IN  IF ~rest.ok THEN rest ELSE Ok(<<c.v>> \o rest.v)

\* Some complete call reached before the first error overflows its i16.
RECURSIVE complete_all_overflows(_, _, _, _)
complete_all_overflows(is, i, rom, ram_) ==
    /\ i < Len(is)
    /\ \/ complete_overflows(is[i + 1], i, rom)
       \/ /\ complete(is[i + 1], i, rom, ram_).ok
          /\ complete_all_overflows(is, i + 1, rom, ram_)

\* The strings of the RAM stream, in order.
RECURSIVE only_strings(_)
only_strings(ram_) ==
    IF ram_ = <<>> THEN <<>>
    ELSE IF ram_[1].t = "String"
         THEN <<ram_[1].s>> \o only_strings(Tail(ram_))
         ELSE only_strings(Tail(ram_))

(***************************************************************************)
(* logic.rs: make_program, the two folds over to_binary                    *)
(***************************************************************************)
\* The byte of a character of a string literal (ASCII).
Byte(c) == CASE c = "h" -> 104 [] c = "i" -> 105 [] c = "\n" -> 10
               [] c = "\\" -> 92 [] c = "n" -> 110

\* ToBinary for String: one 16-bit unit per byte, the byte in the low 8 bits.
RECURSIVE to_binary_String(_)
to_binary_String(str) ==
    IF str = <<>> THEN <<>>
    ELSE store_be(16, Byte(str[1])) \o to_binary_String(Tail(str))

RECURSIVE fold_to_binary_instrs(_)
fold_to_binary_instrs(is) ==
    IF is = <<>> THEN <<>>
    ELSE to_binary_FullInstr(is[1]) \o fold_to_binary_instrs(Tail(is))

\* The RAM fold closing every string with a NUL word, as `.asciz` suggests.
RECURSIVE fold_to_binary_strings_with_nul(_)
fold_to_binary_strings_with_nul(strs) ==
    IF strs = <<>> THEN <<>>
    ELSE to_binary_String(strs[1]) \o store_be(16, 0)
           \o fold_to_binary_strings_with_nul(Tail(strs))

RECURSIVE fold_to_binary_strings(_)
fold_to_binary_strings(strs) ==
    IF strs = <<>> THEN <<>>
    ELSE to_binary_String(strs[1]) \o fold_to_binary_strings(Tail(strs))

(***************************************************************************)
(* Spec: make_program(instrs) on a Vec<ParsedLine>.                        *)
(***************************************************************************)
\* The lines a program is made of.
Lines ==
    { PL_Label(NameA), PL_Label(NameB),
      PL_Instr(FullInstr("B", Args_Label(NameA))),
      PL_Instr(FullInstr("Beq", Args_Label(NameB))),
      PL_Instr(FullInstr("Ldr3", Args_RtLabel("R0", NameA))),
      PL_Instr(FullInstr("Movs", Args_RdImm8("R1", 7))),
      PL_String(<<"h", "i">>), PL_String(<<"h">>),
      PL_Long(NameB) }

Programs == UNION {[1..n -> Lines] : n \in 0..MaxLines}

Init ==
    /\ pc = "extract_ram"
    /\ instrs \in Programs
    /\ input = Idle
    /\ ram = Idle /\ resolved = Idle /\ program = Idle
    /\ data = Idle /\ output = Idle
    /\ batch = Idle /\ results = Idle /\ written = Idle
    /\ stdout = Idle /\ exit_code = Idle
    /\ rom_labels = Idle /\ ram_labels = Idle
    /\ N = Idle /\ WIDE = Idle /\ val = Idle /\ imm = Idle /\ imm_bits = Idle
    /\ self_instr = Idle /\ cur_line = Idle /\ completed = Idle /\ word = Idle

\* make_program: `let ram = extract_ram(&mut instrs);`
ExtractRam ==
    /\ pc = "extract_ram"
    /\ LET r == extract_ram(instrs)
       IN  IF r.panic
           THEN /\ program' = Panic("String without label")
                /\ pc' = "panicked"
                /\ UNCHANGED <<instrs, ram>>
           ELSE /\ instrs' = r.instrs
                /\ ram' = r.ram
                /\ pc' = "process_lines"
                /\ UNCHANGED program
    /\ UNCHANGED <<input, resolved, mapVars, immVars, cmpVars, outVars, cliVars>>

\* make_program: `let (rom, ram) = process_lines(instrs, &ram)?;`
ProcessLines ==
    /\ pc = "process_lines"
    /\ LET collapsed == collapse_long(instrs)
           labels == calculate_labels(collapsed, ram)
           is == only_instrs(collapsed)
       IN  /\ instrs' = collapsed
           /\ rom_labels' = labels.rom
           /\ ram_labels' = labels.ram
           /\ resolved' \in
                 {complete_all(is, 0, labels.rom, labels.ram)}
                   \cup (IF complete_all_overflows(is, 0, labels.rom, labels.ram)
                         THEN {Panic("attempt to subtract with overflow")}
                         ELSE {})
    /\ IF resolved'.ok
       THEN pc' = "to_binary_fold" /\ UNCHANGED program
       ELSE /\ program' = resolved'
            /\ pc' = IF resolved'.err = "panic" THEN "panicked" ELSE "done"
    /\ UNCHANGED <<input, ram, immVars, cmpVars, outVars, cliVars>>

\* make_program: the folds over to_binary and `Ok(Program { instrs: rom, ram })`
MakeProgram ==
    /\ pc = "to_binary_fold"
    /\ program' = Ok([instrs |-> fold_to_binary_instrs(resolved.v),
                      ram |-> fold_to_binary_strings(only_strings(ram))])
    /\ pc' = "done"
    /\ UNCHANGED <<input, instrs, ram, resolved, mapVars, immVars, cmpVars, outVars, cliVars>>

Next == ExtractRam \/ ProcessLines \/ MakeProgram

Spec == Init /\ [][Next]_vars

(***************************************************************************)
(* parser.rs: the label parsers, on texts as sequences of characters.      *)
(***************************************************************************)
\* char::is_alphanumeric() || c == '_' on the characters of the texts used.
is_label_char(c) == c \in {"a", "b", "_"}

\* take_while(pred): the length of the longest prefix of label characters.
RECURSIVE take_while_len(_)
take_while_len(text) ==
    IF text = <<>> \/ ~is_label_char(text[1]) THEN 0
    ELSE 1 + take_while_len(Tail(text))

\* parse_label keeping the dot it meets: recognize(pair(opt('.'), take_while)).
parse_label_keeps_dot(text) ==
    LET dot == IF text # <<>> /\ text[1] = "." THEN 1 ELSE 0
        n == dot + take_while_len(SubSeq(text, dot + 1, Len(text)))
    IN  [out |-> SubSeq(text, 1, n), rest |-> SubSeq(text, n + 1, Len(text))]

\* parse_label: preceded(opt(char('.')), take_while(..)): [out, rest].
parse_label(text) ==
    LET after == IF text # <<>> /\ text[1] = "." THEN Tail(text) ELSE text
        n == take_while_len(after)
    IN  [out |-> SubSeq(after, 1, n), rest |-> SubSeq(after, n + 1, Len(after))]

\* parse_label_definition: terminated(parse_label, char(':')).
parse_label_definition(text) ==
    LET r == parse_label(text)
    IN  IF r.rest # <<>> /\ r.rest[1] = ":"
        THEN [ok |-> TRUE, out |-> r.out, rest |-> Tail(r.rest)]
        ELSE [ok |-> FALSE, out |-> <<>>, rest |-> text]

\* parse_label_args on the operand text that follows the separator.
parse_label_args(text) == Args_Label(parse_label(text).out)

\* parse_rt_label on the register and the operand text after the separator.
parse_rt_label(rt, text) == Args_RtLabel(rt, parse_label(text).out)

(***************************************************************************)
(* utils.rs: unescape_string                                               *)
(***************************************************************************)
\* str::replace of the two-character pattern <<a, b>> by the character r.
RECURSIVE replace2(_, _, _, _)
replace2(str, a, b, r) ==
    IF Len(str) < 2 THEN str
    ELSE IF str[1] = a /\ str[2] = b
         THEN <<r>> \o replace2(SubSeq(str, 3, Len(str)), a, b, r)
         ELSE <<str[1]>> \o replace2(Tail(str), a, b, r)

unescape_string(str) ==
    replace2(replace2(str, "\\", "n", "\n"), "\\", "\\", "\\")

(***************************************************************************)
(* parser.rs: Reg::parse, the argument parsers and parse_instr, on an      *)
(* instruction line given as its mnemonic and the sequence of its operand  *)
(* tokens.  An argument parser reads a prefix of the operands:             *)
(* [ok, v, rest].                                                          *)
(***************************************************************************)
TokReg(text)          == [k |-> "reg", text |-> text]
TokImm(v)             == [k |-> "imm", v |-> v]
TokMem(base, has, v)  == [k |-> "mem", base |-> base, has_imm |-> has, v |-> v]
TokLabel(text)        == [k |-> "label", text |-> text]

NoParse == [ok |-> FALSE]
Parsed(v, rest) == [ok |-> TRUE, v |-> v, rest |-> rest]

\* Reg::parse: `r<digits>` through Reg::try_from, then the tags sp and pc.
Reg_parse(text) ==
    CASE text = "r0" -> Ok("R0") [] text = "r1" -> Ok("R1")
      [] text = "r2" -> Ok("R2") [] text = "r3" -> Ok("R3")
      [] text = "r4" -> Ok("R4") [] text = "r5" -> Ok("R5")
      [] text = "r6" -> Ok("R6") [] text = "r7" -> Ok("R7")
      [] text = "r14" -> Ok("PC") [] text = "r15" -> Ok("SP")
      [] text = "sp" -> Ok("SP") [] text = "pc" -> Ok("PC")
      [] OTHER -> NoParse

\* preceded(parse_separator, Reg::parse) on operand i.
reg_at(ops, i) ==
    IF Len(ops) >= i /\ ops[i].k = "reg" THEN Reg_parse(ops[i].text) ELSE NoParse

\* preceded(parse_separator, Immediate::<N, WIDE>::parse) on operand i.
imm_at(ops, i, n, wide) ==
    IF Len(ops) >= i /\ ops[i].k = "imm"
    THEN LET r == Immediate_new(n, wide, ops[i].v)
         IN  IF r.ok THEN Ok(r.v) ELSE NoParse
    ELSE NoParse

rest_after(ops, n) == SubSeq(ops, n + 1, Len(ops))

parse_rd_rm_imm5(ops) ==
    LET rd == reg_at(ops, 1)  rm == reg_at(ops, 2)  imm5 == imm_at(ops, 3, 5, FALSE)
    IN  IF rd.ok /\ rm.ok /\ imm5.ok
        THEN Parsed(Args_RdRmImm5(rd.v, rm.v, imm5.v), rest_after(ops, 3))
        ELSE NoParse

parse_rd_rn_rm(ops) ==
    LET rd == reg_at(ops, 1)  rn == reg_at(ops, 2)  rm == reg_at(ops, 3)
    IN  IF rd.ok /\ rn.ok /\ rm.ok
        THEN Parsed(Args_RdRnRm(rd.v, rn.v, rm.v), rest_after(ops, 3))
        ELSE NoParse

parse_rd_rn_imm3(ops) ==
    LET rd == reg_at(ops, 1)  rn == reg_at(ops, 2)  imm3 == imm_at(ops, 3, 3, FALSE)
    IN  IF rd.ok /\ rn.ok /\ imm3.ok
        THEN Parsed(Args_RdRnImm3(rd.v, rn.v, imm3.v), rest_after(ops, 3))
        ELSE NoParse

parse_rd_imm8(ops) ==
    LET rd == reg_at(ops, 1)  imm8 == imm_at(ops, 2, 8, FALSE)
    IN  IF rd.ok /\ imm8.ok
        THEN Parsed(Args_RdImm8(rd.v, imm8.v), rest_after(ops, 2))
        ELSE NoParse

\* tag_no_case("sp") and Immediate7W::parse
parse_sp_imm7(ops) ==
    LET imm7 == imm_at(ops, 2, 7, TRUE)
    IN  IF Len(ops) >= 1 /\ ops[1] = TokReg("sp") /\ imm7.ok
        THEN Parsed(Args_Immediate7W(imm7.v), rest_after(ops, 2))
        ELSE NoParse

parse_two_regs(ops) ==
    LET r1 == reg_at(ops, 1)  r2 == reg_at(ops, 2)
    IN  IF r1.ok /\ r2.ok
        THEN Parsed(Args_TwoRegs(r1.v, r2.v), rest_after(ops, 2))
        ELSE NoParse

parse_rdm_rn_rdm(ops) ==
    LET r1 == reg_at(ops, 1)  r2 == reg_at(ops, 2)  r1_ == reg_at(ops, 3)
    IN  IF r1.ok /\ r2.ok /\ r1_.ok /\ r1.v = r1_.v
        THEN Parsed(Args_TwoRegs(r1.v, r2.v), rest_after(ops, 3))
        ELSE NoParse

parse_rdrn_imm0(ops) ==
    LET rd == reg_at(ops, 1)  rn == reg_at(ops, 2)  imm0 == imm_at(ops, 3, 8, FALSE)
    IN  IF rd.ok /\ rn.ok /\ imm0.ok /\ imm0.v = 0
        THEN Parsed(Args_RdRnImm0(rd.v, rn.v), rest_after(ops, 3))
        ELSE NoParse

\* The optional immediate inside the brackets of operand i: absent is
\* Immediate::new(0); one that Immediate::new rejects leaves the closing
\* bracket unread, so the operand does not parse.
mem_imm(ops, i, n, wide) ==
    IF ~ops[i].has_imm THEN Ok(Immediate_new(n, wide, 0).v)
    ELSE LET r == Immediate_new(n, wide, ops[i].v)
         IN  IF r.ok THEN Ok(r.v) ELSE NoParse

parse_rt_sp_imm8(ops) ==
    LET rt == reg_at(ops, 1)
    IN  IF rt.ok /\ Len(ops) >= 2 /\ ops[2].k = "mem" /\ ops[2].base = "sp"
           /\ mem_imm(ops, 2, 8, TRUE).ok
        THEN Parsed(Args_RtSpImm8W(rt.v, mem_imm(ops, 2, 8, TRUE).v),
                    rest_after(ops, 2))
        ELSE NoParse

parse_rt_rn_imm5(ops) ==
    LET rt == reg_at(ops, 1)
    IN  IF rt.ok /\ Len(ops) >= 2 /\ ops[2].k = "mem"
           /\ Reg_parse(ops[2].base).ok /\ mem_imm(ops, 2, 5, FALSE).ok
        THEN Parsed(Args_RtRnImm5(rt.v, Reg_parse(ops[2].base).v,
                                  mem_imm(ops, 2, 5, FALSE).v),
                    rest_after(ops, 2))
        ELSE NoParse

\* parse_rt_label and parse_label_args on operands whose label is a label
\* token.
parse_rt_label_ops(ops) ==
    LET rt == reg_at(ops, 1)
    IN  IF rt.ok /\ Len(ops) >= 2 /\ ops[2].k = "label"
        THEN Parsed(parse_rt_label(rt.v, ops[2].text), rest_after(ops, 2))
        ELSE NoParse

parse_label_args_ops(ops) ==
    IF Len(ops) >= 1 /\ ops[1].k = "label"
    THEN Parsed(parse_label_args(ops[1].text), rest_after(ops, 1))
    ELSE NoParse

(***************************************************************************)
(* parser.rs: INSTRUCTIONS and the parser generated from it.               *)
(***************************************************************************)
INSTRUCTIONS ==
    << <<"Lsls", "parse_rd_rm_imm5">>, <<"Lsrs", "parse_rd_rm_imm5">>,
       <<"Asrs", "parse_rd_rm_imm5">>, <<"Adds", "parse_rd_rn_rm">>,
       <<"Adds2", "parse_rd_rn_imm3">>, <<"Adds3", "parse_rd_imm8">>,
       <<"Subs", "parse_rd_rn_rm">>, <<"Subs2", "parse_rd_rn_imm3">>,
       <<"Subs3", "parse_rd_imm8">>, <<"Movs", "parse_rd_imm8">>,
       <<"Rsbs", "parse_rdrn_imm0">>, <<"Ands", "parse_two_regs">>,
       <<"Eors", "parse_two_regs">>, <<"Lsls2", "parse_two_regs">>,
       <<"Lsrs2", "parse_two_regs">>, <<"Asrs2", "parse_two_regs">>,
       <<"Adcs", "parse_two_regs">>, <<"Sbcs", "parse_two_regs">>,
       <<"Rors", "parse_two_regs">>, <<"Tst", "parse_two_regs">>,
       <<"Rsbs", "parse_two_regs">>, <<"Cmp", "parse_two_regs">>,
       <<"Cmp2", "parse_rd_imm8">>, <<"Cmn", "parse_two_regs">>,
       <<"Orrs", "parse_two_regs">>, <<"Muls", "parse_rdm_rn_rdm">>,
       <<"Bics", "parse_two_regs">>, <<"Mvns", "parse_two_regs">>,
       <<"Str", "parse_rt_sp_imm8">>, <<"Ldr", "parse_rt_sp_imm8">>,
       <<"Ldr2", "parse_rt_rn_imm5">>, <<"Ldr3", "parse_rt_label">>,
       <<"AddSp", "parse_sp_imm7">>, <<"SubSp", "parse_sp_imm7">>,
       <<"Beq", "parse_label_args">>, <<"Bne", "parse_label_args">>,
       <<"Bcs", "parse_label_args">>, <<"Bcc", "parse_label_args">>,
       <<"Bmi", "parse_label_args">>, <<"Bpl", "parse_label_args">>,
       <<"Bvs", "parse_label_args">>, <<"Bvc", "parse_label_args">>,
       <<"Bhi", "parse_label_args">>, <<"Bls", "parse_label_args">>,
       <<"Bge", "parse_label_args">>, <<"Blt", "parse_label_args">>,
       <<"Bgt", "parse_label_args">>, <<"Ble", "parse_label_args">>,
       <<"Bal", "parse_label_args">>, <<"B", "parse_label_args">> >>

\* instructions.rs: Instr::text_instruction
text_instruction(i) ==
    CASE i = "Lsls" -> {"lsls"} [] i = "Lsrs" -> {"lsrs"} [] i = "Asrs" -> {"asrs"}
      [] i = "Adds" -> {"adds"} [] i = "Subs" -> {"subs"}
      [] i = "Adds2" -> {"adds", "add"} [] i = "Subs2" -> {"subs", "sub"}
      [] i = "Adds3" -> {"adds"} [] i = "Subs3" -> {"subs"}
      [] i = "Movs" -> {"movs"} [] i = "Str" -> {"str"} [] i = "Ldr" -> {"ldr"}
      [] i = "Ldr2" -> {"ldr", "ldrb"} [] i = "Ldr3" -> {"ldr"}
      [] i = "AddSp" -> {"add"} [] i = "SubSp" -> {"sub"}
      [] i = "Ands" -> {"ands"} [] i = "Eors" -> {"eors"}
      [] i = "Lsls2" -> {"lsls"} [] i = "Lsrs2" -> {"lsrs"}
      [] i = "Asrs2" -> {"asrs"} [] i = "Adcs" -> {"adcs"}
      [] i = "Sbcs" -> {"sbcs"} [] i = "Rors" -> {"rors"} [] i = "Tst" -> {"tst"}
      [] i = "Rsbs" -> {"rsbs"} [] i = "Cmp" -> {"cmp"} [] i = "Cmp2" -> {"cmp"}
      [] i = "Cmn" -> {"cmn"} [] i = "Orrs" -> {"orrs"} [] i = "Muls" -> {"muls"}
      [] i = "Bics" -> {"bics"} [] i = "Mvns" -> {"mvns"} [] i = "B" -> {"b"}
      [] i = "Beq" -> {"beq"} [] i = "Bne" -> {"bne"}
      [] i = "Bcs" -> {"bcs", "bhs"} [] i = "Bcc" -> {"bcc", "blo"}
      [] i = "Bmi" -> {"bmi"} [] i = "Bpl" -> {"bpl"} [] i = "Bvs" -> {"bvs"}
      [] i = "Bvc" -> {"bvc"} [] i = "Bhi" -> {"bhi"} [] i = "Bls" -> {"bls"}
      [] i = "Bge" -> {"bge"} [] i = "Blt" -> {"blt"} [] i = "Bgt" -> {"bgt"}
      [] i = "Ble" -> {"ble"} [] i = "Bal" -> {"bal"}

\* The ParseArgs function an entry of INSTRUCTIONS names, applied.
parse_args(name, ops) ==
    CASE name = "parse_rd_rm_imm5" -> parse_rd_rm_imm5(ops)
      [] name = "parse_rd_rn_rm" -> parse_rd_rn_rm(ops)
      [] name = "parse_rd_rn_imm3" -> parse_rd_rn_imm3(ops)
      [] name = "parse_rd_imm8" -> parse_rd_imm8(ops)
      [] name = "parse_rdrn_imm0" -> parse_rdrn_imm0(ops)
      [] name = "parse_two_regs" -> parse_two_regs(ops)
      [] name = "parse_rdm_rn_rdm" -> parse_rdm_rn_rdm(ops)
      [] name = "parse_rt_sp_imm8" -> parse_rt_sp_imm8(ops)
      [] name = "parse_rt_rn_imm5" -> parse_rt_rn_imm5(ops)
      [] name = "parse_rt_label" -> parse_rt_label_ops(ops)
      [] name = "parse_sp_imm7" -> parse_sp_imm7(ops)
      [] name = "parse_label_args" -> parse_label_args_ops(ops)

\* Entry e of INSTRUCTIONS on the line: one of its spellings is the
\* mnemonic and its argument parser reads the operands.
entry_parse(e, line) ==
    IF line.mnemonic \in text_instruction(INSTRUCTIONS[e][1])
    THEN parse_args(INSTRUCTIONS[e][2], line.ops)
    ELSE NoParse

\* generate_instructions_parser: the fold keeps the first entry, in the
\* order of INSTRUCTIONS, that parses.
RECURSIVE parse_instr_from(_, _)
parse_instr_from(e, line) ==
    IF e > Len(INSTRUCTIONS) THEN NoParse
    ELSE LET r == entry_parse(e, line)
         IN  IF r.ok
             THEN Parsed(FullInstr(INSTRUCTIONS[e][1], r.v), r.rest)
             ELSE parse_instr_from(e + 1, line)

parse_instr(line) == parse_instr_from(1, line)

(***************************************************************************)
(* parser.rs: parse_line and parse_lines.  A source line is a record of    *)
(* the tokens its parser alternative reads; label texts are characters.    *)
(***************************************************************************)
SrcLabelDef(text)     == [k |-> "label_def", text |-> text]
SrcBranch(i, operand) == [k |-> "branch", instr |-> i, operand |-> operand]
SrcLdr(rt, operand)   == [k |-> "ldr", rt |-> rt, operand |-> operand]
SrcMovs(rd, v)        == [k |-> "movs", rd |-> rd, v |-> v]
SrcString(str)        == [k |-> "asciz", str |-> str]
SrcComment            == [k |-> "comment"]
\* An instruction line as its mnemonic and operand tokens (the lines of
\* parse_instr below); `[rn, rm]` is one operand token.
SrcAsm(m, ops)        == [k |-> "instr", mnemonic |-> m, ops |-> ops]
TokMemReg(base, index) == [k |-> "mem_reg", base |-> base, index |-> index]

ParsedLine_None == [t |-> "None"]
ParseError      == [ok |-> FALSE, err |-> "ParseError"]

\* parse_line: the first alternative that accepts the line.
parse_line(l) ==
    CASE l.k = "label_def" ->
            LET r == parse_label_definition(l.text)
            IN  IF r.ok /\ r.rest = <<>> THEN Ok(PL_Label(r.out)) ELSE ParseError
      [] l.k = "branch" ->
            Ok(PL_Instr(FullInstr(l.instr, parse_label_args(l.operand))))
      [] l.k = "ldr" ->
            Ok(PL_Instr(FullInstr("Ldr3", parse_rt_label(l.rt, l.operand))))
      [] l.k = "movs" ->
            LET i == Immediate8_new(l.v)
            IN  IF i.ok THEN Ok(PL_Instr(FullInstr("Movs", Args_RdImm8(l.rd, i.v))))
                ELSE ParseError
      [] l.k = "asciz" -> Ok(PL_String(unescape_string(l.str)))
      [] l.k = "comment" -> Ok(ParsedLine_None)
      [] l.k = "instr" ->
            LET r == parse_instr(l)
            IN  IF r.ok /\ r.rest = <<>> THEN Ok(PL_Instr(r.v)) ELSE ParseError

\* The register spellings the pattern `r\d` matches.
matches_r_digit(text) ==
    text \in {"r0", "r1", "r2", "r3", "r4", "r5", "r6", "r7", "r8", "r9"}

\* The second replacement of preprocess alone, without the `adds` in front.
preprocess_line_without_adds(l) ==
    IF l.k = "instr" /\ l.mnemonic = "ldrb" /\ Len(l.ops) = 2
       /\ l.ops[2].k = "mem_reg"
    THEN <<SrcAsm("ldrb", <<l.ops[1], TokMem(l.ops[2].base, FALSE, 0)>>)>>
    ELSE <<l>>

\* preprocess on one line: REPLACEMENTS applied in order.  `mov(s) Rd, Rm`
\* becomes `lsls Rd, Rm, #0`; `ldrb Rt, [Rn, Rm]` becomes the two lines
\* `adds r6, Rn, Rm` and `ldrb Rt, [r6]`.
preprocess_line(l) ==
    IF l.k # "instr" THEN <<l>>
    ELSE IF /\ l.mnemonic \in {"mov", "movs"} /\ Len(l.ops) >= 2
            /\ l.ops[1].k = "reg" /\ matches_r_digit(l.ops[1].text)
            /\ l.ops[2].k = "reg" /\ matches_r_digit(l.ops[2].text)
    THEN <<SrcAsm("lsls", <<l.ops[1], l.ops[2], TokImm(0)>>
                            \o SubSeq(l.ops, 3, Len(l.ops)))>>
    ELSE IF /\ l.mnemonic = "ldrb" /\ Len(l.ops) = 2
            /\ l.ops[1].k = "reg" /\ matches_r_digit(l.ops[1].text)
            /\ l.ops[2].k = "mem_reg"
            /\ matches_r_digit(l.ops[2].base) /\ matches_r_digit(l.ops[2].index)
    THEN <<SrcAsm("adds", <<TokReg("r6"), TokReg(l.ops[2].base),
                            TokReg(l.ops[2].index)>>),
           SrcAsm("ldrb", <<l.ops[1], TokMem("r6", FALSE, 0)>>)>>
    ELSE <<l>>

\* preprocess: the replacements over the whole text.
RECURSIVE preprocess(_)
preprocess(text) ==
    IF text = <<>> THEN <<>>
    ELSE preprocess_line(text[1]) \o preprocess(Tail(text))

\* many_till(parse_line, eof), the None lines filtered out.
RECURSIVE many_till_parse_line(_)
many_till_parse_line(text) ==
    IF text = <<>> THEN Ok(<<>>)
    ELSE LET first == parse_line(text[1])
         IN  IF ~first.ok THEN ParseError
             ELSE LET rest == many_till_parse_line(Tail(text))
                  IN  IF ~rest.ok THEN ParseError
                      ELSE IF first.v = ParsedLine_None THEN rest
                      ELSE Ok(<<first.v>> \o rest.v)

\* parse_lines: `let input = preprocess(input);` then the lines parsed.
parse_lines(text) == many_till_parse_line(preprocess(text))

(***************************************************************************)
(* SpecAssemble: parse_lines(input) followed by make_program, as           *)
(* export_to_logisim runs them.                                            *)
(***************************************************************************)
\* The spellings of a label: the names a and b, bare and dotted.
LabelTexts == {NameA, <<".">> \o NameA, NameB, <<".">> \o NameB}

SrcLines ==
    { SrcLabelDef(t \o <<":">>) : t \in LabelTexts }
      \cup { SrcBranch("B", t) : t \in LabelTexts }
      \cup { SrcBranch("Bne", NameA), SrcLdr("R0", NameA),
             SrcLdr("R2", <<".">> \o NameB),
             SrcMovs("R1", 7), SrcMovs("R1", 300),
             SrcString(<<"h", "i">>), SrcString(<<"h", "\\", "n">>),
             SrcComment,
             SrcAsm("ldrb", <<TokReg("r1"), TokMemReg("r0", "r3")>>),
             SrcAsm("ldrb", <<TokReg("r1"), TokMemReg("r8", "r3")>>),
             SrcAsm("movs", <<TokReg("r2"), TokReg("r1")>>) }

Sources == UNION {[1..n -> SrcLines] : n \in 0..MaxSrcLines}

InitAssemble ==
    /\ pc = "parse_lines"
    /\ input \in Sources
    /\ instrs = Idle /\ ram = Idle /\ resolved = Idle /\ program = Idle
    /\ data = Idle /\ output = Idle
    /\ batch = Idle /\ results = Idle /\ written = Idle
    /\ stdout = Idle /\ exit_code = Idle
    /\ rom_labels = Idle /\ ram_labels = Idle
    /\ N = Idle /\ WIDE = Idle /\ val = Idle /\ imm = Idle /\ imm_bits = Idle
    /\ self_instr = Idle /\ cur_line = Idle /\ completed = Idle /\ word = Idle

\* export_to_logisim: `let parsed = parse_lines(input)?;`
ParseLines ==
    /\ pc = "parse_lines"
    /\ LET parsed == parse_lines(input)
       IN  IF parsed.ok
           THEN instrs' = parsed.v /\ pc' = "extract_ram" /\ UNCHANGED program
           ELSE program' = parsed /\ pc' = "done" /\ UNCHANGED instrs
    /\ UNCHANGED <<input, ram, resolved, mapVars, immVars, cmpVars, outVars, cliVars>>

NextAssemble == ParseLines \/ ExtractRam \/ ProcessLines \/ MakeProgram

SpecAssemble == InitAssemble /\ [][NextAssemble]_vars

(***************************************************************************)
(* SpecEncode: one instruction line through parse_instr, complete and      *)
(* to_binary.                                                              *)
(***************************************************************************)
SrcInstr(m, ops) == [mnemonic |-> m, ops |-> ops]

\* The spellings of registers and the immediates the lines are built from.
RegTexts == {"r0", "r3", "r5", "r7", "r8", "r14", "sp", "pc"}
ImmValues == {0, 1, 4, 7, 8, 31, 32, 255, 256, 508, 512, 1020, 1024, 1028}

\* The operand lists of the non-label shapes.
OperandShapes ==
    { <<TokReg(a), TokReg(b), TokReg(c)>> : a, b, c \in RegTexts }
      \cup { <<TokReg(a), TokReg(b), TokImm(v)>> :
                a, b \in RegTexts, v \in ImmValues }
      \cup { <<TokReg(a), TokReg(b)>> : a, b \in RegTexts }
      \cup { <<TokReg(a), TokImm(v)>> : a \in RegTexts, v \in ImmValues }
      \cup { <<TokReg(a), TokMem(b, TRUE, v)>> :
                a, b \in RegTexts, v \in ImmValues }
      \cup { <<TokReg(a), TokMem(b, FALSE, 0)>> : a, b \in RegTexts }

AluMnemonics ==
    {"lsls", "lsrs", "asrs", "adds", "add", "subs", "sub", "movs", "rsbs",
     "ands", "eors", "adcs", "sbcs", "rors", "tst", "cmp", "cmn", "orrs",
     "muls", "bics", "mvns", "str", "ldr", "ldrb"}

BranchMnemonics ==
    {"beq", "bne", "bcs", "bhs", "bcc", "blo", "bmi", "bpl", "bvs", "bvc",
     "bhi", "bls", "bge", "blt", "bgt", "ble", "bal", "b"}

SrcInstrs ==
    { SrcInstr(m, ops) : m \in AluMnemonics, ops \in OperandShapes }
      \cup { SrcInstr(m, <<TokLabel(t)>>) : m \in BranchMnemonics, t \in LabelTexts }
      \cup { SrcInstr("ldr", <<TokReg(a), TokLabel(t)>>) :
                a \in RegTexts, t \in LabelTexts }

InitEncode ==
    /\ pc = "parse_instr"
    /\ input \in SrcInstrs
    /\ cur_line = 2
    /\ rom_labels = (NameA :> 7)
    /\ ram_labels = (NameB :> 9)
    /\ self_instr = Idle /\ completed = Idle /\ word = Idle
    /\ N = Idle /\ WIDE = Idle /\ val = Idle /\ imm = Idle /\ imm_bits = Idle
    /\ instrs = Idle /\ ram = Idle /\ resolved = Idle /\ program = Idle
    /\ data = Idle /\ output = Idle
    /\ batch = Idle /\ results = Idle /\ written = Idle
    /\ stdout = Idle /\ exit_code = Idle

\* parse_line: the instruction alternative; operands left unread make the
\* parse of the text fail.
ParseInstr ==
    /\ pc = "parse_instr"
    /\ LET r == parse_instr(input)
       IN  IF r.ok /\ r.rest = <<>>
           THEN self_instr' = r.v /\ pc' = "complete"
           ELSE self_instr' = self_instr /\ pc' = "parse_err"
    /\ UNCHANGED <<cur_line, completed, word, mapVars, immVars, asmVars, outVars, cliVars>>

NextEncode == ParseInstr \/ Complete \/ ToBinary

SpecEncode == InitEncode /\ [][NextEncode]_vars

(***************************************************************************)
(* lib.rs: convert_to_logisim.  A String is a sequence of characters.      *)
(***************************************************************************)
LOGISIM_HEADER == <<"v", "2", ".", "0", " ", "r", "a", "w", "\n">>

HexDigits ==
    <<"0", "1", "2", "3", "4", "5", "6", "7",
      "8", "9", "a", "b", "c", "d", "e", "f">>

\* format!("{integer:x}"): lowercase hexadecimal without padding.
RECURSIVE format_x(_)
format_x(n) ==
    IF n < 16 THEN <<HexDigits[n + 1]>>
    ELSE format_x(n \div 16) \o <<HexDigits[(n % 16) + 1]>>

\* A formatter without the width: `{integer:x}`.
format_x_unpadded(n) == format_x(n)

\* format!("{integer:04x}"): zero-padded to a width of at least 4.
format_04x(n) ==
    LET digits == format_x(n)
    IN  [k \in 1..(4 - Len(digits)) |-> "0"] \o digits

\* data.chunks(16): the last chunk keeps what is left.
RECURSIVE chunks(_, _)
chunks(bits, size) ==
    IF bits = <<>> THEN <<>>
    ELSE IF Len(bits) <= size THEN <<bits>>
    ELSE <<SubSeq(bits, 1, size)>> \o chunks(SubSeq(bits, size + 1, Len(bits)), size)

\* fold(out, |acc, i| acc + &i + " ") over the formatted chunks.
RECURSIVE fold_words(_, _)
fold_words(acc, cs) ==
    IF cs = <<>> THEN acc
    ELSE fold_words(acc \o format_04x(load_be(cs[1])) \o <<" ">>, Tail(cs))

\* char::is_whitespace on the characters of an output.
is_whitespace(c) == c \in {" ", "\n"}

\* str::trim
RECURSIVE trim_start(_)
trim_start(str) ==
    IF str # <<>> /\ is_whitespace(str[1]) THEN trim_start(Tail(str)) ELSE str

RECURSIVE trim_end(_)
trim_end(str) ==
    IF str # <<>> /\ is_whitespace(str[Len(str)])
    THEN trim_end(SubSeq(str, 1, Len(str) - 1))
    ELSE str

trim(str) == trim_end(trim_start(str))

convert_to_logisim(bits) == trim(fold_words(LOGISIM_HEADER, chunks(bits, 16)))

(***************************************************************************)
(* SpecLogisim: convert_to_logisim on a bit stream of whole words.         *)
(***************************************************************************)
\* The 16-bit values the streams are made of: 0000, 000a, 00ab, 2000, b004,
\* b081, e7fd, ffff.
WordValues == {0, 10, 171, 8192, 45060, 45185, 59389, 65535}

\* The bit stream of a sequence of 16-bit values.
RECURSIVE BitsOf(_)
BitsOf(ws) ==
    IF ws = <<>> THEN <<>> ELSE store_be(16, ws[1]) \o BitsOf(Tail(ws))

InitLogisim ==
    /\ pc = "convert_to_logisim"
    /\ \E k \in 0..MaxWords : \E ws \in [1..k -> WordValues] : data = BitsOf(ws)
    /\ output = Idle
    /\ batch = Idle /\ results = Idle /\ written = Idle
    /\ stdout = Idle /\ exit_code = Idle
    /\ N = Idle /\ WIDE = Idle /\ val = Idle /\ imm = Idle /\ imm_bits = Idle
    /\ self_instr = Idle /\ cur_line = Idle /\ completed = Idle /\ word = Idle
    /\ input = Idle /\ instrs = Idle /\ ram = Idle /\ resolved = Idle
    /\ program = Idle
    /\ rom_labels = Idle /\ ram_labels = Idle

\* export_to_logisim: `convert_to_logisim(program.instrs)` (and `.ram`)
ConvertToLogisim ==
    /\ pc = "convert_to_logisim"
    /\ output' = convert_to_logisim(data)
    /\ pc' = "converted"
    /\ UNCHANGED <<data, immVars, cmpVars, asmVars, mapVars, cliVars>>

NextLogisim == ConvertToLogisim

SpecLogisim == InitLogisim /\ [][NextLogisim]_vars

(***************************************************************************)
(* SpecCollapse: collapse_long(&mut instrs), as process_lines calls it.    *)
(***************************************************************************)
\* The lines of the streams handed to collapse_long.
CollapseLines ==
    { PL_Label(NameA), PL_Label(NameB), PL_Long(NameA), PL_Long(NameB),
      PL_Instr(FullInstr("Ldr3", Args_RtLabel("R0", NameA))),
      PL_Instr(FullInstr("Ldr3", Args_RtLabel("R1", NameB))),
      PL_Instr(FullInstr("Movs", Args_RdImm8("R1", 7))) }

InitCollapse ==
    /\ pc = "collapse_long"
    /\ instrs \in UNION {[1..n -> CollapseLines] : n \in 0..MaxLines}
    /\ input = Idle
    /\ ram = Idle /\ resolved = Idle /\ program = Idle
    /\ data = Idle /\ output = Idle
    /\ batch = Idle /\ results = Idle /\ written = Idle
    /\ stdout = Idle /\ exit_code = Idle
    /\ rom_labels = Idle /\ ram_labels = Idle
    /\ N = Idle /\ WIDE = Idle /\ val = Idle /\ imm = Idle /\ imm_bits = Idle
    /\ self_instr = Idle /\ cur_line = Idle /\ completed = Idle /\ word = Idle

\* process_lines: `collapse_long(&mut instrs);`
CollapseLong ==
    /\ pc = "collapse_long"
    /\ instrs' = collapse_long(instrs)
    /\ pc' = "calculate_labels"
    /\ UNCHANGED <<input, ram, resolved, program, mapVars, immVars, cmpVars, outVars, cliVars>>

NextCollapse == CollapseLong

SpecCollapse == InitCollapse /\ [][NextCollapse]_vars

(***************************************************************************)
(* logic.rs / lib.rs: process_lines, make_program and export_to_logisim as *)
(* functions of their input.  Each gives the set of its possible outcomes: *)
(* Ok(..), an error, or Panic(..) when the call unwinds.                   *)
(***************************************************************************)
process_lines(instrs_, ram_) ==
    LET collapsed == collapse_long(instrs_)
        labels == calculate_labels(collapsed, ram_)
        is == only_instrs(collapsed)
        done == complete_all(is, 0, labels.rom, labels.ram)
    IN  {IF done.ok THEN Ok([rom |-> done.v, ram |-> only_strings(ram_)])
         ELSE done}
          \cup (IF complete_all_overflows(is, 0, labels.rom, labels.ram)
                THEN {Panic("attempt to subtract with overflow")}
                ELSE {})

make_program(lines) ==
    LET r == extract_ram(lines)
    IN  IF r.panic THEN {Panic("String without label")}
        ELSE { IF p.ok
               THEN Ok([instrs |-> fold_to_binary_instrs(p.v.rom),
                        ram |-> fold_to_binary_strings(p.v.ram)])
               ELSE p : p \in process_lines(r.instrs, r.ram) }

\* An export that answers a failed parse or resolution with the images of
\* the empty program.
export_to_logisim_or_empty(text) ==
    {Ok([rom |-> convert_to_logisim(<<>>), ram |-> convert_to_logisim(<<>>)])}

export_to_logisim(text) ==
    LET parsed == parse_lines(text)
    IN  IF ~parsed.ok THEN {parsed}
        ELSE { IF p.ok
               THEN Ok([rom |-> convert_to_logisim(p.v.instrs),
                        ram |-> convert_to_logisim(p.v.ram)])
               ELSE p : p \in make_program(parsed.v) }

(***************************************************************************)
(* main.rs: process_file.  A file is its contents and what the file system *)
(* lets the process do with it: "ok", or the first of File::open,          *)
(* File::create of the .rom.bin and File::create of the .ram.bin to fail.  *)
(* The outcome is the value returned (Panic when an unwrap() fails) and    *)
(* the extensions of the files written before the return.                  *)
(***************************************************************************)
process_file(f) ==
    IF f.io = "unreadable"
    THEN {[result |-> Panic("File::open(path).unwrap()"), files |-> {}]}
    ELSE { IF ~out.ok THEN [result |-> out, files |-> {}]
           ELSE IF f.io = "rom_unwritable"
           THEN [result |-> Panic("File::create(path).unwrap()"), files |-> {}]
           ELSE IF f.io = "ram_unwritable"
           THEN [result |-> Panic("File::create(path).unwrap()"),
                 files |-> {"rom.bin"}]
           ELSE [result |-> Ok(<<>>), files |-> {"rom.bin", "ram.bin"}]
           : out \in export_to_logisim(f.contents) }

(***************************************************************************)
(* SpecBatch: the command `assemble` on a batch of files, to the end of    *)
(* the process.                                                            *)
(***************************************************************************)
\* The contents of the files: a program with a branch and a string, a
\* program without RAM, an immediate out of range, a branch to a label that
\* is not defined, a string without label.
FileContents ==
    { <<SrcLabelDef(NameA \o <<":">>), SrcString(<<"h", "i">>),
        SrcLdr("R0", NameA)>>,
      <<SrcLabelDef(NameB \o <<":">>), SrcBranch("B", NameB)>>,
      <<SrcMovs("R1", 7), SrcMovs("R1", 300)>>,
      <<SrcMovs("R1", 7), SrcBranch("Bne", NameA)>>,
      <<SrcString(<<"h", "i">>)>> }

Files ==
    [contents : FileContents,
     io : {"ok", "unreadable", "rom_unwritable", "ram_unwritable"}]

InitBatch ==
    /\ pc = "assemble"
    /\ batch \in UNION {[1..n -> Files] : n \in 0..MaxFiles}
    /\ results = <<>>
    /\ written = {}
    /\ stdout = <<>>
    /\ exit_code = Idle
    /\ data = Idle /\ output = Idle
    /\ input = Idle /\ instrs = Idle /\ ram = Idle /\ resolved = Idle
    /\ program = Idle
    /\ rom_labels = Idle /\ ram_labels = Idle
    /\ N = Idle /\ WIDE = Idle /\ val = Idle /\ imm = Idle /\ imm_bits = Idle
    /\ self_instr = Idle /\ cur_line = Idle /\ completed = Idle /\ word = Idle

\* assemble: `.map(|path| (process_file(path.as_ref()), path))`, driven by
\* partition, for the next file of the batch.  A panic unwinds through
\* assemble and main: the process ends with exit code 101.
ProcessFile ==
    /\ pc = "assemble"
    /\ Len(results) < Len(batch)
    /\ LET i == Len(results) + 1
       IN  \E out \in process_file(batch[i]) :
              /\ written' = written \cup {<<i, ext>> : ext \in out.files}
              /\ IF ~out.result.ok /\ out.result.err = "panic"
                 THEN /\ pc' = "aborted"
                      /\ exit_code' = 101
                      /\ UNCHANGED results
                 ELSE /\ results' = Append(results, out.result)
                      /\ UNCHANGED <<pc, exit_code>>
    /\ UNCHANGED <<batch, stdout, immVars, cmpVars, asmVars, mapVars, outVars>>

\* The lines printed for the files of the batch whose result is (not) Ok.
RECURSIVE report(_, _, _)
report(rs, i, ok) ==
    IF i > Len(rs) THEN <<>>
    ELSE (IF rs[i].ok = ok
          THEN <<[msg |-> IF ok THEN "Processed" ELSE "Failed to process",
                  file |-> i]>>
          ELSE <<>>) \o report(rs, i + 1, ok)

\* assemble: the two `for` loops over failed and succeeded, then its return.
Report ==
    /\ pc = "assemble"
    /\ Len(results) = Len(batch)
    /\ stdout' = report(results, 1, FALSE) \o report(results, 1, TRUE)
    /\ pc' = "main_return"
    /\ UNCHANGED <<batch, results, written, exit_code,
                   immVars, cmpVars, asmVars, mapVars, outVars>>

\* main returns (): the process ends with exit code 0.
MainReturn ==
    /\ pc = "main_return"
    /\ exit_code' = 0
    /\ pc' = "exited"
    /\ UNCHANGED <<batch, results, written, stdout,
                   immVars, cmpVars, asmVars, mapVars, outVars>>

NextBatch == ProcessFile \/ Report \/ MainReturn

SpecBatch == InitBatch /\ [][NextBatch]_vars

(***************************************************************************)
(* Claims about Immediate<N, WIDE> (checked under SpecImm).                *)
(***************************************************************************)
ImmReturned == pc \in {"imm_to_binary", "imm_err", "imm_done"}

\* C3: Immediate<N, false>::new(v) succeeds exactly when 0 <= v <= 2^N - 1
\* and returns the out-of-range error for every other v (N = 3, 5, 8).
C3_UnsignedNewAcceptsExactlyRange ==
    (ImmReturned /\ ~WIDE) => (imm.ok <=> (0 <= val /\ val <= 2 ^ N - 1))

\* C4: Immediate<N, true>::new(v) succeeds only when v is a multiple of 4
\* with 0 <= v <= 2^(N+2) - 1, and then stores v / 4; every v that is not a
\* multiple of 4 or lies outside that range is rejected (N = 7, 8).
C4_WideNewAcceptsMultiplesOfFour ==
    (ImmReturned /\ WIDE) =>
        /\ imm.ok <=> (val % 4 = 0 /\ 0 <= val /\ val <= 2 ^ (N + 2) - 1)
        /\ imm.ok => imm.v * 4 = val

\* C5: every value that survives Immediate<N, WIDE>::new is encodable without
\* loss: the stored value is below 2^N, and reading the N-bit field back
\* (times 4 when WIDE) recovers the v handed to new.
C5_SurvivorsRoundTrip ==
    (pc = "imm_done") =>
        /\ imm.v < 2 ^ N
        /\ Len(imm_bits) = N
        /\ load_be(imm_bits) * (IF WIDE THEN 4 ELSE 1) = val

(***************************************************************************)
(* Claims about FullInstr::complete (checked under SpecComplete).          *)
(***************************************************************************)
CompleteReturned == pc \in {"to_binary", "complete_err", "complete_done"}

\* self_instr is a branch whose label the ROM map holds.
BranchInRom ==
    /\ self_instr.args.t = "Label"
    /\ self_instr.args.label \in DOMAIN rom_labels

\* self_instr is `ldr Rt, label` whose label the RAM map holds.
LdrInRam ==
    /\ self_instr.instr = "Ldr3"
    /\ self_instr.args.t = "RtLabel"
    /\ self_instr.args.label \in DOMAIN ram_labels

\* tgt - cur - 3 as an integer, for a branch whose label the ROM map holds.
TrueOffset == rom_labels[self_instr.args.label] - cur_line - 3

C7_JumpTooFarCarriesNameAndDistance ==
    (CompleteReturned /\ ~completed.ok /\ completed.err = "JumpTooFar") =>
        /\ completed.label = self_instr.args.label
        /\ completed.distance =
              IF self_instr.args.t = "Label" THEN TrueOffset
              ELSE ram_labels[self_instr.args.label]

\* The word of `movs rd, #v` as the parser and the encoder produce it:
\* parse_rd_imm8 builds RdImm8(rd, Immediate8::new(v)).
MovsWord(rd, v) ==
    to_binary_FullInstr(FullInstr("Movs", Args_RdImm8(rd, Immediate8_new(v).v)))

\* C10: an `ldr Rt, label` whose label is in the RAM map is resolved to the
\* arguments (Rt, Imm8 = RAM offset of the label), and its emitted word is
\* the word of `movs Rt, #<ram-offset>`; every offset up to 255 resolves.
C10_LdrRamLabelIsMovs ==
    (CompleteReturned /\ LdrInRam) =>
        LET off == ram_labels[self_instr.args.label]
            rt == self_instr.args.rt
        IN  /\ off <= 255 => completed.ok
            /\ completed.ok => completed.v.args = Args_RdImm8(rt, off)
            /\ pc = "complete_done" => word = MovsWord(rt, off)

\* C10 witness: `ldr r5, a` with a at RAM offset 200 was resolved and encoded.
C10_Witness ==
    /\ pc = "complete_done"
    /\ LdrInRam
    /\ self_instr.args.rt = "R5"
    /\ ram_labels[self_instr.args.label] = 200
    /\ word = <<0, 0, 1, 0, 0,  1, 0, 1,  1, 1, 0, 0, 1, 0, 0, 0>>

\* C9 as stated: LabelNotFound is reported only for an instruction whose
\* label is absent from both label maps.
C9_LabelNotFoundOnlyIfAbsentFromBothMaps ==
    (CompleteReturned /\ ~completed.ok /\ completed.err = "LabelNotFound") =>
        /\ self_instr.args.label \notin DOMAIN rom_labels
        /\ self_instr.args.label \notin DOMAIN ram_labels

\* C9 (amended): each path consults its own map only.  A branch fails with
\* LabelNotFound(name) exactly when its label is absent from the ROM map and
\* an `ldr Rt, label` exactly when its label is absent from the RAM map,
\* whether or not the other map holds the label; an instruction without a
\* label never fails with LabelNotFound.
C9_LabelNotFoundIffAbsentFromOwnMap ==
    CompleteReturned =>
        LET notFound == ~completed.ok /\ completed.err = "LabelNotFound"
        IN  /\ self_instr.args.t = "Label" =>
                 (notFound <=> self_instr.args.label \notin DOMAIN rom_labels)
            /\ self_instr.args.t = "RtLabel" =>
                 (notFound <=> self_instr.args.label \notin DOMAIN ram_labels)
            /\ self_instr.args.t \notin {"Label", "RtLabel"} => ~notFound
            /\ notFound => completed = LabelNotFound(self_instr.args.label)

\* C9 witness: `b a` failed with LabelNotFound("a") although the RAM map
\* holds a.
C9_Witness ==
    /\ pc = "complete_err"
    /\ self_instr = FullInstr("B", Args_Label(NameA))
    /\ NameA \notin DOMAIN rom_labels
    /\ NameA \in DOMAIN ram_labels
    /\ completed = LabelNotFound(NameA)

(***************************************************************************)
(* Claims about make_program (checked under Spec).                         *)
(***************************************************************************)
\* process_lines has returned: instrs is the stream label calculation saw.
LabelsCalculated == pc \in {"to_binary_fold", "done"} \/
                    (pc = "panicked" /\ rom_labels # Idle)

\* The ROM index of position i of the stream: the number of Instr lines
\* before it.
RomIndex(lines, i) == Cardinality({k \in 1..(i - 1) : lines[k].t = "Instr"})

\* Position i holds the Label line that defines its name (the last one, when
\* a name is defined more than once).
DefinesLabel(lines, i) ==
    /\ lines[i].t = "Label"
    /\ \A k \in (i + 1)..Len(lines) :
          ~(lines[k].t = "Label" /\ lines[k].s = lines[i].s)

\* C2: in the stream handed to label calculation every ROM label's value is
\* the ROM index of the next Instr line, i.e. the number of Instr lines
\* before the label, whatever other lines the stream holds.
C2_LabelValueIsNextInstrIndex ==
    LabelsCalculated =>
        \A i \in 1..Len(instrs) :
            DefinesLabel(instrs, i) =>
                rom_labels[instrs[i].s] = RomIndex(instrs, i)

\* The immediate field of the word emitted for ROM index cur: its last n bits.
ImmField(cur, n) ==
    SubSeq(program.v.instrs, 16 * cur + 17 - n, 16 * cur + 16)

\* C1: in a program that assembled, a branch at ROM index cur whose label is
\* defined at ROM index tgt has the two's complement of tgt - cur - 3 as the
\* immediate field of its word: 11 bits for `b`, 8 bits for a conditional
\* branch.
C1_BranchOffsetIsTgtMinusCurMinus3 ==
    (pc = "done" /\ program.ok) =>
        \A j, i \in 1..Len(instrs) :
            (/\ instrs[j].t = "Instr"
             /\ instrs[j].instr.args.t = "Label"
             /\ DefinesLabel(instrs, i)
             /\ instrs[i].s = instrs[j].instr.args.label) =>
                LET cur == RomIndex(instrs, j)
                    tgt == RomIndex(instrs, i)
                    n == IF instrs[j].instr.instr = "B" THEN 11 ELSE 8
                IN  ImmField(cur, n) = store_be(n, tgt - cur - 3)

\* The stream handed to label calculation holds only Label and Instr lines.
NoOrphanLong == \A k \in 1..Len(instrs) : instrs[k].t # "Long"

\* C2 and C1 for the streams in which no `.long` line survived the collapse.
C2_WithoutOrphanLong ==
    (LabelsCalculated /\ NoOrphanLong) => C2_LabelValueIsNextInstrIndex

C1_WithoutOrphanLong ==
    (pc = "done" /\ program.ok /\ NoOrphanLong) =>
        C1_BranchOffsetIsTgtMinusCurMinus3

(***************************************************************************)
(* Claims about parse_lines followed by make_program (SpecAssemble).       *)
(***************************************************************************)
\* A label's name as the grammar gives it: its text without a leading dot.
NameOf(text) == IF text[1] = "." THEN Tail(text) ELSE text

\* The names the label definitions of the text define.
DefinedNames ==
    { NameOf(SubSeq(input[k].text, 1, Len(input[k].text) - 1)) :
         k \in {k \in 1..Len(input) : input[k].k = "label_def"} }

\* Source line j is a branch whose label no label definition of the text
\* defines.
BranchToUndefined(j) ==
    /\ input[j].k = "branch"
    /\ NameOf(input[j].operand) \notin DefinedNames

\* Assembly came to an end other than a panic of extract_ram.
Assembled == pc = "done"

\* C8: a branch whose label is defined nowhere in the program makes assembly
\* fail; when that branch is the first instruction of the text that names a
\* label, the failure is LabelNotFound carrying the label's name without
\* its leading dot.
C8_UndefinedBranchLabelIsLabelNotFound ==
    \A j \in 1..Len(input) :
        BranchToUndefined(j) =>
            /\ pc \in {"done", "panicked"} => ~program.ok
            /\ pc # "to_binary_fold"
            /\ (/\ Assembled
                /\ program.err # "ParseError"
                /\ \A k \in 1..(j - 1) : input[k].k \notin {"branch", "ldr"})
                  => program = LabelNotFound(NameOf(input[j].operand))

\* C8 witness: `b .b` in a text that only defines a failed with
\* LabelNotFound("b").
C8_Witness ==
    /\ pc = "done"
    /\ input = <<SrcLabelDef(<<"a", ":">>), SrcBranch("B", <<".", "b">>)>>
    /\ program = LabelNotFound(NameB)

\* C11: an `ldr Rt, label` whose RAM label has an offset greater than 255
\* fails with JumpTooFar carrying that offset and never becomes a word.
C11_LdrOffsetAbove255IsJumpTooFar ==
    (CompleteReturned /\ LdrInRam /\ ram_labels[self_instr.args.label] > 255) =>
        /\ completed = JumpTooFar(self_instr.args.label,
                                  ram_labels[self_instr.args.label])
        /\ pc = "complete_err"

\* The same for the offsets above 256, which Immediate8::new rejects.
C11_LdrOffsetAbove256IsJumpTooFar ==
    (CompleteReturned /\ LdrInRam /\ ram_labels[self_instr.args.label] > 256) =>
        /\ completed = JumpTooFar(self_instr.args.label,
                                  ram_labels[self_instr.args.label])
        /\ pc = "complete_err"

\* The sum of the byte lengths of the String lines before position i.
RECURSIVE StringBytesBefore(_, _)
StringBytesBefore(lines, i) ==
    IF i <= 1 THEN 0
    ELSE StringBytesBefore(lines, i - 1)
           + (IF lines[i - 1].t = "String" THEN Len(lines[i - 1].s) ELSE 0)

\* C12: the value of every RAM label is the sum of the byte lengths of the
\* strings that precede its attached string in the RAM stream (0 for the
\* first string), and the labels of one label-run have the same value.
C12_RamLabelIsCumulativeByteOffset ==
    LabelsCalculated =>
        /\ \A i \in 1..Len(ram) :
              DefinesLabel(ram, i) =>
                  ram_labels[ram[i].s] = StringBytesBefore(ram, i)
        /\ \A i \in 1..(Len(ram) - 1) :
              (DefinesLabel(ram, i) /\ DefinesLabel(ram, i + 1)) =>
                  ram_labels[ram[i].s] = ram_labels[ram[i + 1].s]

\* C12 witness: a label-run of two labels behind a string of two bytes; both
\* labels have the value 2.
C12_Witness ==
    /\ pc = "done"
    /\ ram = <<PL_Label(NameB), PL_String(<<"h", "i">>),
               PL_Label(NameA), PL_Label(NameB), PL_String(<<"h">>)>>
    /\ ram_labels[NameA] = 2
    /\ ram_labels[NameB] = 2

\* The positions of the lines RAM extraction lifts: every String line and
\* every Label line of the run of consecutive Label lines right before one.
Lifted(lines) ==
    { i \in 1..Len(lines) :
        \/ lines[i].t = "String"
        \/ /\ lines[i].t = "Label"
           /\ \E j \in (i + 1)..Len(lines) :
                 /\ lines[j].t = "String"
                 /\ \A k \in i..(j - 1) : lines[k].t = "Label" }

\* The lines at the positions of S from position i on, in their order.
RECURSIVE PickFrom(_, _, _)
PickFrom(lines, S, i) ==
    IF i > Len(lines) THEN <<>>
    ELSE (IF i \in S THEN <<lines[i]>> ELSE <<>>) \o PickFrom(lines, S, i + 1)

\* C13: RAM extraction moves every run of consecutive Label lines right
\* before a String line, with that String, into the RAM stream in source
\* order, removes exactly those lines from the main stream and leaves every
\* other line of the main stream in place and in order.
C13_ExtractRamMovesLabelRunsAndStrings ==
    [][(pc = "extract_ram" /\ pc' = "process_lines") =>
          /\ ram' = PickFrom(instrs, Lifted(instrs), 1)
          /\ instrs' = PickFrom(instrs, (1..Len(instrs)) \ Lifted(instrs), 1)]_vars

\* C13 witness: a run of two labels and their string were lifted; the label
\* that an instruction separates from the string stayed with the instructions.
C13_Witness ==
    /\ pc = "process_lines"
    /\ ram = <<PL_Label(NameB), PL_Label(NameA), PL_String(<<"h", "i">>)>>
    /\ instrs = <<PL_Label(NameA), PL_Instr(FullInstr("B", Args_Label(NameA)))>>

\* Some String line of the stream has no Label line immediately before it.
OrphanString(lines) ==
    \E i \in 1..Len(lines) :
        /\ lines[i].t = "String"
        /\ (i = 1 \/ lines[i - 1].t # "Label")

\* C14: a String line that no Label line immediately precedes is reported
\* as an error result of assembly: extract_ram neither panics nor lets the
\* stream go on to produce output.
C14_StringWithoutLabelIsErrorResult ==
    [][(pc = "extract_ram" /\ OrphanString(instrs)) =>
          /\ pc' = "done"
          /\ ~program'.ok
          /\ program'.err # "panic"]_vars

\* What extract_ram does with such a stream: it panics.
C14_StringWithoutLabelPanics ==
    [][(pc = "extract_ram" /\ OrphanString(instrs)) =>
          /\ pc' = "panicked"
          /\ program' = Panic("String without label")]_vars

\* C15: after the label maps are built no label name is a key of both the
\* ROM label map and the RAM label map.
C15_LabelMapsDisjoint ==
    LabelsCalculated => DOMAIN rom_labels \cap DOMAIN ram_labels = {}

\* No name is defined by two Label lines of the two streams together.
EachNameDefinedOnce ==
    LET all == instrs \o ram
    IN  \A i, j \in 1..Len(all) :
           (all[i].t = "Label" /\ all[j].t = "Label" /\ all[i].s = all[j].s)
              => i = j

\* C15 for the programs that define each name once.
C15_DisjointWhenDefinedOnce ==
    (LabelsCalculated /\ EachNameDefinedOnce) => C15_LabelMapsDisjoint

(***************************************************************************)
(* Claims about parse_instr, complete and to_binary (SpecEncode).          *)
(***************************************************************************)
\* The operand width of each resolved argument family: 3 bits a register,
\* N bits an immediate.
OperandBits(a) ==
    CASE a.t = "RdRmImm5" -> 5 + 3 + 3 [] a.t = "RdRnRm" -> 3 + 3 + 3
      [] a.t = "RdRnImm3" -> 3 + 3 + 3 [] a.t = "RdImm8" -> 3 + 8
      [] a.t = "TwoRegs" -> 3 + 3      [] a.t = "RdRnImm0" -> 3 + 3
      [] a.t = "RtSpImm8W" -> 3 + 8    [] a.t = "RtRnImm5" -> 3 + 3 + 5
      [] a.t = "Immediate7W" -> 7      [] a.t = "Immediate8S" -> 8
      [] a.t = "Immediate11" -> 11

C16_ProgramBitsAreWholeWords ==
    (pc = "done" /\ program.ok) =>
        /\ Len(program.v.instrs) = 16 * Len(resolved.v)
        /\ Len(program.v.ram) % 16 = 0

(***************************************************************************)
(* Claims about the RAM image of make_program (checked under Spec).        *)
(***************************************************************************)
\* The bytes of the strings of the RAM stream, in insertion order.
RECURSIVE RamBytes(_)
RamBytes(lines) ==
    IF lines = <<>> THEN <<>>
    ELSE (IF lines[1].t = "String"
          THEN [k \in 1..Len(lines[1].s) |-> Byte(lines[1].s[k])]
          ELSE <<>>) \o RamBytes(Tail(lines))

\* Word k (from 1) of a bit sequence, as a number.
WordAt(bits, k) == load_be(SubSeq(bits, 16 * k - 15, 16 * k))

\* C17: the RAM image holds, for every extracted string in RAM insertion
\* order and every byte of it in order, exactly one 16-bit word whose high
\* 8 bits are zero and whose low 8 bits are the byte; nothing else.
C17_RamImageIsOneWordPerByte ==
    (pc = "done" /\ program.ok) =>
        LET bytes == RamBytes(ram)
        IN  /\ Len(program.v.ram) = 16 * Len(bytes)
            /\ \A k \in 1..Len(bytes) :
                  /\ WordAt(program.v.ram, k) = bytes[k]
                  /\ \A b \in 1..8 : program.v.ram[16 * k - 16 + b] = 0

\* C17 witness: the strings "hi" and "h" became the words 0068 0069 0068.
C17_Witness ==
    /\ pc = "done"
    /\ program.ok
    /\ only_strings(ram) = << <<"h", "i">>, <<"h">> >>
    /\ program.v.ram = store_be(16, 104) \o store_be(16, 105) \o store_be(16, 104)

(***************************************************************************)
(* Claims about the operand fields of an encoded word (SpecEncode).        *)
(***************************************************************************)
\* Bits i..j of the word, as a number.
Field(i, j) == load_be(SubSeq(word, i, j))

\* The three bits that hold a register: the low three bits of its code.
RegField(r) == Reg_u8(r) % 8

\* C18: after the opcode bits the operand fields follow in the flatten
\* order of the family: RdRmImm5 as Imm5 || Rm || Rd, RdRnRm as
\* Rm || Rn || Rd, RdRnImm3 as Imm3 || Rn || Rd, TwoRegs(r1, r2) as
\* r2 || r1, RdImm8 as Rd || Imm8, RtSpImm8W as Rt || Imm8; a register is
\* 3 bits and an immediate its N bits, most significant bit first.
C18_OperandFieldsInFlattenOrder ==
    pc = "complete_done" =>
        LET a == completed.v.args
            n == Len(Instr_bits(completed.v.instr))
        IN  /\ SubSeq(word, 1, n) = Instr_bits(completed.v.instr)
            /\ a.t = "RdRmImm5" =>
                  /\ Field(n + 1, n + 5) = a.imm % 32
                  /\ Field(n + 6, n + 8) = RegField(a.rm)
                  /\ Field(n + 9, n + 11) = RegField(a.rd)
            /\ a.t = "RdRnRm" =>
                  /\ Field(n + 1, n + 3) = RegField(a.rm)
                  /\ Field(n + 4, n + 6) = RegField(a.rn)
                  /\ Field(n + 7, n + 9) = RegField(a.rd)
            /\ a.t = "RdRnImm3" =>
                  /\ Field(n + 1, n + 3) = a.imm % 8
                  /\ Field(n + 4, n + 6) = RegField(a.rn)
                  /\ Field(n + 7, n + 9) = RegField(a.rd)
            /\ a.t = "TwoRegs" =>
                  /\ Field(n + 1, n + 3) = RegField(a.r2)
                  /\ Field(n + 4, n + 6) = RegField(a.r1)
            /\ a.t = "RdImm8" =>
                  /\ Field(n + 1, n + 3) = RegField(a.rd)
                  /\ Field(n + 4, n + 11) = a.imm % 256
            /\ a.t = "RtSpImm8W" =>
                  /\ Field(n + 1, n + 3) = RegField(a.rt)
                  /\ Field(n + 4, n + 11) = a.imm % 256

\* C18 witness: `ands r3, r5` was encoded with r5 before r3.
C18_Witness ==
    /\ pc = "complete_done"
    /\ input = SrcInstr("ands", <<TokReg("r3"), TokReg("r5")>>)
    /\ completed.v.args = Args_TwoRegs("R3", "R5")
    /\ word = <<0, 1, 0, 0, 0, 0, 0, 0, 0, 0,  1, 0, 1,  0, 1, 1>>

\* The registers an argument record carries in 3-bit register fields.
RegOperands(a) ==
    { a[f] : f \in DOMAIN a \cap {"rd", "rm", "rn", "rt", "r1", "r2"} }

\* C19: no line the parser accepts yields an instruction that carries sp or
\* pc in an operand encoded as a 3-bit register field, and every emitted
\* 3-bit register field is the numeric code (0..7) of the register written
\* in the source.
C19_NoSpOrPcInRegisterFields ==
    (pc \in {"complete", "to_binary", "complete_done", "complete_err"}) =>
        /\ RegOperands(self_instr.args) \cap {"SP", "PC"} = {}
        /\ (pc = "complete_done" /\ completed.v.args.t = "RdImm8") =>
              Field(6, 8) = Reg_u8(completed.v.args.rd)

\* What the encoder does with them: sp is emitted as 7 and pc as 6.
C19_SpAndPcAreTruncated ==
    (pc = "complete_done" /\ completed.v.args.t = "RdImm8") =>
        Field(6, 8) = (CASE completed.v.args.rd = "SP" -> 7
                         [] completed.v.args.rd = "PC" -> 6
                         [] OTHER -> Reg_u8(completed.v.args.rd))

(***************************************************************************)
(* Claims about convert_to_logisim (checked under SpecLogisim).            *)
(***************************************************************************)
\* The value of a lowercase hexadecimal digit, -1 for any other character.
HexValue(c) ==
    IF \E d \in 1..16 : HexDigits[d] = c
    THEN (CHOOSE d \in 1..16 : HexDigits[d] = c) - 1
    ELSE -1

\* The characters "v2.0 raw" of the header line.
HeaderLine == <<"v", "2", ".", "0", " ", "r", "a", "w">>

\* The text of word w (from 1) in an output: the 4 characters after the
\* header line, its newline and the w - 1 words and separators before it.
WordText(out, w) == SubSeq(out, 5 * w + 5, 5 * w + 8)

\* C20: for a bit stream of 16*k bits the output is the line `v2.0 raw`, a
\* newline and exactly k words in stream order, each the 4 lowercase
\* hexadecimal digits of the big-endian 16-bit value, separated by single
\* spaces with no whitespace at either end; for k = 0 the output is the
\* header `v2.0 raw` alone.
C20_LogisimOutputIsHeaderThenHexWords ==
    pc = "converted" =>
        LET k == Len(data) \div 16
        IN  /\ Len(data) = 16 * k
            /\ SubSeq(output, 1, 8) = HeaderLine
            /\ k = 0 => output = HeaderLine
            /\ k > 0 =>
                /\ Len(output) = 8 + 5 * k
                /\ output[9] = "\n"
                /\ \A w \in 1..k :
                    LET t == WordText(output, w)
                    IN  /\ \A d \in 1..4 : HexValue(t[d]) >= 0
                        /\ HexValue(t[1]) * 4096 + HexValue(t[2]) * 256
                             + HexValue(t[3]) * 16 + HexValue(t[4])
                           = WordAt(data, w)
                        /\ w < k => output[5 * w + 9] = " "
                /\ ~is_whitespace(output[Len(output)])

\* The stream b004 b081 of tests/misc.rs has been converted to
\* "v2.0 raw\nb004 b081".
C20_Witness ==
    /\ pc = "converted"
    /\ data = BitsOf(<<45060, 45185>>)
    /\ output = <<"v", "2", ".", "0", " ", "r", "a", "w", "\n",
                  "b", "0", "0", "4", " ", "b", "0", "8", "1">>

(***************************************************************************)
(* Claims about collapse_long (checked under SpecCollapse).                *)
(***************************************************************************)
\* The positions of the `.long` lines that a Label line immediately precedes.
LabelledLongs(lines) ==
    { i \in 2..Len(lines) : lines[i].t = "Long" /\ lines[i - 1].t = "Label" }

\* The names that the pairs `L: .long NAME` of the stream give for label L.
LongNamesOf(lines, label) ==
    { lines[i].s : i \in { j \in LabelledLongs(lines) : lines[j - 1].s = label } }

IsLdr3Label(line) ==
    /\ line.t = "Instr"
    /\ line.instr.instr = "Ldr3"
    /\ line.instr.args.t = "RtLabel"

\* C24: for every `.long NAME` line immediately preceded by a Label L,
\* collapse rewrites every `Ldr3 Rt, L` of the stream, before or after the
\* pair, to `Ldr3 Rt, NAME` and removes the `.long` line; no other
\* instruction and no other line is changed or removed.
C24_CollapseRewritesEveryLdrOfAPair ==
    [][(pc = "collapse_long" /\ pc' = "calculate_labels") =>
          LET kept == PickFrom(instrs,
                          (1..Len(instrs)) \ LabelledLongs(instrs), 1)
          IN  /\ Len(instrs') = Len(kept)
              /\ \A k \in 1..Len(kept) :
                    IF /\ IsLdr3Label(kept[k])
                       /\ LongNamesOf(instrs, kept[k].instr.args.label) # {}
                    THEN /\ IsLdr3Label(instrs'[k])
                         /\ instrs'[k].instr.args.rt = kept[k].instr.args.rt
                         /\ instrs'[k].instr.args.label
                              \in LongNamesOf(instrs, kept[k].instr.args.label)
                    ELSE instrs'[k] = kept[k]]_vars

\* The frame part of C24 alone: the `.long` lines of the pairs are removed,
\* every other line stays in place and only the label of an `Ldr3 Rt, L`
\* whose L heads a pair may change.
C24_CollapseRemovesPairsAndKeepsOtherLines ==
    [][(pc = "collapse_long" /\ pc' = "calculate_labels") =>
          LET kept == PickFrom(instrs,
                          (1..Len(instrs)) \ LabelledLongs(instrs), 1)
          IN  /\ Len(instrs') = Len(kept)
              /\ \A k \in 1..Len(kept) :
                    IF /\ IsLdr3Label(kept[k])
                       /\ LongNamesOf(instrs, kept[k].instr.args.label) # {}
                    THEN /\ IsLdr3Label(instrs'[k])
                         /\ instrs'[k].instr.args.rt = kept[k].instr.args.rt
                    ELSE instrs'[k] = kept[k]]_vars

(***************************************************************************)
(* Claims about the order of the layout stages (checked under Spec).       *)
(***************************************************************************)
\* C25: `.long` lines are collapsed before RAM extraction, so that what
\* make_program does with a stream (the crash on a String without label,
\* the RAM stream, the main stream handed to label calculation) is what
\* collapsing first and extracting second does with it.
C25_ResultIsCollapseThenExtract ==
    [][pc = "extract_ram" =>
          LET code  == extract_ram(instrs)
              first == extract_ram(collapse_long(instrs))
          IN  /\ (pc' = "panicked") = first.panic
              /\ ~first.panic =>
                    /\ ram' = first.ram
                    /\ collapse_long(code.instrs) = first.instrs]_vars

\* The stream `a: .long b` followed by a string was handed to make_program,
\* which crashed in extract_ram.
C25_LongBetweenLabelAndStringPanics ==
    [][(/\ pc = "extract_ram"
        /\ instrs = <<PL_Label(NameA), PL_Long(NameB), PL_String(<<"h">>)>>)
          => /\ pc' = "panicked"
             /\ ~extract_ram(collapse_long(instrs)).panic]_vars

(***************************************************************************)
(* Claims about process_file and assemble (checked under SpecBatch).       *)
(***************************************************************************)
\* Some line of the text fails to parse.
FailsToParse(text) == ~parse_lines(text).ok

\* The text parses and the resolution of some instruction returns an error.
FailsToResolve(text) ==
    /\ parse_lines(text).ok
    /\ \E p \in make_program(parse_lines(text).v) : ~p.ok /\ p.err # "panic"

\* The text parses and make_program returns a program for it.
Assembles(text) ==
    /\ parse_lines(text).ok
    /\ \A p \in make_program(parse_lines(text).v) : p.ok

\* C21: assembly is all-or-nothing: for a file with a line that fails to
\* parse or an instruction that fails to resolve, process_file returns the
\* error and neither its .rom.bin nor its .ram.bin is written; an output
\* file is on disk only for a file whose whole program assembled.
C21_NoOutputUnlessWholeProgramAssembled ==
    /\ \A i \in 1..Len(batch) :
          (FailsToParse(batch[i].contents) \/ FailsToResolve(batch[i].contents))
            => /\ <<i, "rom.bin">> \notin written
               /\ <<i, "ram.bin">> \notin written
               /\ i <= Len(results) =>
                     ~results[i].ok /\ results[i].err # "panic"
    /\ \A w \in written : Assembles(batch[w[1]].contents)

\* A batch of a file that assembles and a file with an immediate out of
\* range has been processed: only the first file has its two outputs.
C21_Witness ==
    /\ pc = "exited"
    /\ Len(batch) = 2
    /\ Assembles(batch[1].contents)
    /\ FailsToParse(batch[2].contents)
    /\ results[2].err = "ParseError"
    /\ written = {<<1, "rom.bin">>, <<1, "ram.bin">>}

\* The command has ended: main returned or a panic ended the process.
Ended == pc \in {"exited", "aborted"}

\* Nothing of file f itself fails: it can be read, it assembles and both
\* its outputs can be written.
Sound(f) == f.io = "ok" /\ Assembles(f.contents)

\* C22: a failure on one file of the batch (an assembly error or a read or
\* write I/O error) is fatal for that file only: when the command has ended
\* every other file has been processed and its two outputs are written.
C22_FailureIsFatalForItsFileOnly ==
    Ended =>
        \A i \in 1..Len(batch) :
            Sound(batch[i]) =>
                {<<i, "rom.bin">>, <<i, "ram.bin">>} \subseteq written

\* The part of C22 about assembly errors: in a batch whose failures are
\* parse and resolution errors only, every other file has its two outputs.
C22_AssemblyErrorIsFatalForItsFileOnly ==
    (/\ Ended
     /\ \A i \in 1..Len(batch) :
           /\ batch[i].io = "ok"
           /\ \/ Assembles(batch[i].contents)
              \/ FailsToParse(batch[i].contents)
              \/ FailsToResolve(batch[i].contents))
      => \A i \in 1..Len(batch) :
            Sound(batch[i]) =>
                {<<i, "rom.bin">>, <<i, "ram.bin">>} \subseteq written

\* C23: the command exits with code 0 if every file of the batch succeeded
\* and with a nonzero code if at least one file failed.
C23_ExitCodeIsZeroIffEveryFileSucceeded ==
    Ended => (exit_code = 0 <=> \A i \in 1..Len(batch) : Sound(batch[i]))

\* A batch with a file that fails to assemble was reported and the process
\* ended with exit code 0.
C23_FailedBatchExitsWithZero ==
    (/\ pc = "exited"
     /\ \E i \in 1..Len(batch) : FailsToParse(batch[i].contents))
      => /\ exit_code = 0
         /\ \E k \in 1..Len(stdout) : stdout[k].msg = "Failed to process"

(***************************************************************************)
(* Claims about preprocess (checked under SpecAssemble).                   *)
(***************************************************************************)
\* Source line l is `ldrb Rt, [Rn, Rm]`.
IsLdrbRegReg(l) ==
    /\ l.k = "instr" /\ l.mnemonic = "ldrb"
    /\ Len(l.ops) = 2 /\ l.ops[1].k = "reg" /\ l.ops[2].k = "mem_reg"

\* The ROM words of a source line: two for `ldrb Rt, [Rn, Rm]`, one for any
\* other instruction, none for a label, a string or a comment.
WordsOf(l) ==
    IF IsLdrbRegReg(l) THEN 2
    ELSE IF l.k \in {"branch", "ldr", "movs", "instr"} THEN 1
    ELSE 0

\* The ROM words of the source lines before line j.
RECURSIVE WordsBefore(_)
WordsBefore(j) ==
    IF j <= 1 THEN 0 ELSE WordsBefore(j - 1) + WordsOf(input[j - 1])

\* The label that source line d defines, defined by no other line.
DefinesOnce(d) ==
    /\ input[d].k = "label_def"
    /\ \A e \in 1..Len(input) :
          (e # d /\ input[e].k = "label_def") =>
              NameOf(input[e].text) # NameOf(input[d].text)

DefinedNameAt(d) == NameOf(SubSeq(input[d].text, 1, Len(input[d].text) - 1))

\* C26: a source line `ldrb Rt, [Rn, Rm]` is the two instructions
\* `adds r6, Rn, Rm` and `ldrb Rt, [r6]` at two consecutive ROM indices, and
\* every ROM label index and every branch offset counts both of its words.
C26_LdrbRegRegIsAddsThenLdrb ==
    pc = "to_binary_fold" =>
        /\ Len(resolved.v) = WordsBefore(Len(input) + 1)
        /\ \A j \in 1..Len(input) :
              IsLdrbRegReg(input[j]) =>
                  LET w == WordsBefore(j)
                      ops == input[j].ops
                  IN  /\ resolved.v[w + 1] =
                            FullInstr("Adds",
                                Args_RdRnRm("R6", Reg_parse(ops[2].base).v,
                                            Reg_parse(ops[2].index).v))
                      /\ resolved.v[w + 2] =
                            FullInstr("Ldr2",
                                Args_RtRnImm5(Reg_parse(ops[1].text).v, "R6", 0))
        /\ \A d \in 1..Len(input) :
              (DefinesOnce(d) /\ DefinedNameAt(d) \in DOMAIN rom_labels) =>
                  /\ rom_labels[DefinedNameAt(d)] = WordsBefore(d)
                  /\ \A j \in 1..Len(input) :
                        (/\ input[j].k = "branch"
                         /\ NameOf(input[j].operand) = DefinedNameAt(d)) =>
                            resolved.v[WordsBefore(j) + 1].args.imm
                              = WordsBefore(d) - WordsBefore(j) - 3

\* `b a`, `ldrb r1, [r0, r3]`, `a:` resolved: the branch at index 0 jumps
\* over the two words of the ldrb to the label at index 3.
C26_Witness ==
    /\ pc = "to_binary_fold"
    /\ input = <<SrcBranch("B", NameA),
                 SrcAsm("ldrb", <<TokReg("r1"), TokMemReg("r0", "r3")>>),
                 SrcLabelDef(NameA \o <<":">>)>>
    /\ rom_labels[NameA] = 3
    /\ resolved.v = <<FullInstr("B", Args_Immediate11(0)),
                      FullInstr("Adds", Args_RdRnRm("R6", "R0", "R3")),
                      FullInstr("Ldr2", Args_RtRnImm5("R1", "R6", 0))>>

(***************************************************************************)
(* Claims about the resolved instructions (checked under Spec).            *)
(***************************************************************************)
\* C27: after resolution succeeded no instruction has a Label or RtLabel
\* argument left, so to_binary meets no unresolved label and make_program
\* does not end in the panic `Label not resolved`.
C27_NoLabelArgumentAfterResolution ==
    /\ pc = "to_binary_fold" =>
          \A k \in 1..Len(resolved.v) :
              /\ resolved.v[k].args.t \notin {"Label", "RtLabel"}
              /\ to_binary_FullInstr(resolved.v[k]) # Panic("Label not resolved")
    /\ pc \in {"done", "panicked"} => program # Panic("Label not resolved")

\* A branch and an `ldr Rt, label` were resolved: the ldr of the RAM label a
\* is a movs, the beq to the ROM label b carries its offset.
C27_Witness ==
    /\ pc = "to_binary_fold"
    /\ ram = <<PL_Label(NameA), PL_String(<<"h", "i">>)>>
    /\ instrs = <<PL_Instr(FullInstr("Ldr3", Args_RtLabel("R0", NameA))),
                  PL_Label(NameB),
                  PL_Instr(FullInstr("Beq", Args_Label(NameB)))>>
    /\ resolved.v = <<FullInstr("Ldr3", Args_RdImm8("R0", 0)),
                      FullInstr("Beq", Args_Immediate8S(-3))>>

\* The instructions of the Instr lines of a stream, in stream order.
InstrLines(lines) ==
    PickFrom(lines, {i \in 1..Len(lines) : lines[i].t = "Instr"}, 1)

\* C28: the resolved list has one entry per Instr line, in source order; the
\* index handed to complete for an instruction is the position of its word
\* in the ROM image; an instruction whose argument is neither a Label nor
\* the RtLabel of an Ldr3 is returned unchanged.
C28_ResolutionPreservesTheInstructionSequence ==
    /\ pc = "to_binary_fold" =>
          LET src == InstrLines(instrs)
          IN  /\ Len(resolved.v) = Len(src)
              /\ \A k \in 1..Len(src) :
                    LET self == src[k].instr
                    IN  /\ resolved.v[k].instr = self.instr
                        /\ (/\ self.args.t # "Label"
                            /\ ~(self.instr = "Ldr3" /\ self.args.t = "RtLabel"))
                              => resolved.v[k] = self
                        /\ self.args.t = "Label" =>
                              resolved.v[k].args.imm
                                = rom_labels[self.args.label] - (k - 1) - 3
    /\ (pc = "done" /\ program.ok) =>
          /\ Len(program.v.instrs) = 16 * Len(resolved.v)
          /\ \A k \in 1..Len(resolved.v) :
                SubSeq(program.v.instrs, 16 * k - 15, 16 * k)
                  = to_binary_FullInstr(resolved.v[k])

\* `movs r1, #7`, `a:`, `b a` assembled: the movs is unchanged at index 0,
\* the branch was completed with index 1 and its word is the second one.
C28_Witness ==
    /\ pc = "done" /\ program.ok
    /\ instrs = <<PL_Instr(FullInstr("Movs", Args_RdImm8("R1", 7))),
                  PL_Label(NameA),
                  PL_Instr(FullInstr("B", Args_Label(NameA)))>>
    /\ resolved.v = <<FullInstr("Movs", Args_RdImm8("R1", 7)),
                      FullInstr("B", Args_Immediate11(-3))>>
    /\ WordAt(program.v.instrs, 2) = 59389

\* The string attached to the Label line at position i of the RAM stream:
\* the first String line behind it.
AttachedString(i) ==
    ram[CHOOSE j \in (i + 1)..Len(ram) :
           /\ ram[j].t = "String"
           /\ \A k \in (i + 1)..(j - 1) : ram[k].t = "Label"].s

\* The first half of C29 on whole programs: the value of every RAM label is
\* the index of the word of the RAM image that holds the first byte of its
\* attached string (the words from there on hold the string), and the
\* argument of the movs that an `ldr Rt, label` became is that index.
C29_RamLabelIndexesFirstWordOfItsString ==
    (pc = "done" /\ program.ok) =>
        /\ \A i \in 1..Len(ram) :
              DefinesLabel(ram, i) =>
                  LET str == AttachedString(i)
                      off == ram_labels[ram[i].s]
                  IN  /\ off + Len(str) <= Len(program.v.ram) \div 16
                      /\ \A k \in 1..Len(str) :
                            WordAt(program.v.ram, off + k) = Byte(str[k])
        /\ \A k \in 1..Len(resolved.v) :
              LET self == InstrLines(instrs)[k].instr
              IN  (self.instr = "Ldr3" /\ self.args.t = "RtLabel") =>
                      /\ resolved.v[k].args.t = "RdImm8"
                      /\ resolved.v[k].args.imm = ram_labels[self.args.label]

\* C29: the value of a RAM label is the index of the word that holds the
\* first byte of its string, so the `movs Rt, #offset` emitted for
\* `ldr Rt, label` addresses that word: the immediate field of the emitted
\* word is the label's value.
C29_EmittedMovsAddressesTheLabel ==
    (pc = "complete_done" /\ LdrInRam) =>
        load_be(SubSeq(word, 9, 16)) = ram_labels[self_instr.args.label]

\* The last position of the stream that defines the label name.
LastDefinition(lines, name) ==
    CHOOSE i \in 1..Len(lines) : DefinesLabel(lines, i) /\ lines[i].s = name

\* The name is defined by more than one Label line of the stream.
DefinedTwice(lines, name) ==
    Cardinality({i \in 1..Len(lines) :
                    lines[i].t = "Label" /\ lines[i].s = name}) > 1

\* The address calculate_labels gives the Label line at position i of the
\* main stream: the number of lines before it that are not Label lines.
AddressOfDefinition(lines, i) ==
    Cardinality({k \in 1..(i - 1) : lines[k].t # "Label"})

\* C30: a label name defined more than once in one address space raises no
\* error of its own, and every reference to it, before or after the
\* definitions, resolves to the last definition in stream order: a branch
\* to the address of the last ROM definition, an `ldr Rt, label` to the
\* offset of the last RAM definition.
C30_LastDefinitionWins ==
    /\ (pc = "done" /\ ~program.ok) =>
          program.err \in {"LabelNotFound", "JumpTooFar"}
    /\ pc = "to_binary_fold" =>
          \A k \in 1..Len(resolved.v) :
              LET self == InstrLines(instrs)[k].instr
              IN  /\ (self.args.t = "Label"
                        /\ DefinedTwice(instrs, self.args.label)) =>
                          resolved.v[k].args.imm
                            = AddressOfDefinition(instrs,
                                  LastDefinition(instrs, self.args.label))
                                - (k - 1) - 3
                  /\ (self.instr = "Ldr3" /\ self.args.t = "RtLabel"
                        /\ DefinedTwice(ram, self.args.label)) =>
                          resolved.v[k].args.imm
                            = StringBytesBefore(ram,
                                  LastDefinition(ram, self.args.label))

\* `b a` stands before two definitions of a, at the addresses 1 and 2: the
\* branch at index 0 was resolved to the second one, offset 2 - 0 - 3.
C30_Witness ==
    /\ pc = "to_binary_fold"
    /\ instrs = <<PL_Instr(FullInstr("B", Args_Label(NameA))),
                  PL_Label(NameA),
                  PL_Instr(FullInstr("Movs", Args_RdImm8("R1", 7))),
                  PL_Label(NameA)>>
    /\ resolved.v = <<FullInstr("B", Args_Immediate11(-1)),
                      FullInstr("Movs", Args_RdImm8("R1", 7))>>

====
